---- MODULE Spec2Model ----
(***************************************************************************)
(* A model of the spreadsheet engine (src/spreadsheet.py,                  *)
(* src/spreadsheet_functions.py) and of its snapshot history               *)
(* (src/spreadsheet_history.py).                                           *)
(*                                                                         *)
(* A Spreadsheet object is a record; every method is an operator from a    *)
(* spreadsheet record to a spreadsheet record, translated statement by     *)
(* statement.  A raised exception is the field err of the record: once it  *)
(* is set every later statement is skipped, as unwinding does.             *)
(*                                                                         *)
(* Cell addresses are the strings of the program, kept as records          *)
(* [col |-> <letters>, row |-> n] so that upper-casing, the base-26 column *)
(* codec and the comparison of labels can be computed as the code does.    *)
(* Numbers are exact rationals n/d: the rounding of binary floating point  *)
(* is not modelled, the int/float distinction of Python is.                *)
(***************************************************************************)
EXTENDS Integers, Sequences, FiniteSets, TLC

VARIABLES
    sheet,      \* the Spreadsheet object the caller holds
    last,       \* the last public call and how it ended
    nops,       \* number of public calls made so far
    used,       \* the operations called so far, on the spreadsheet and on the history
    raised,     \* whether some call so far has raised
    hashorder,  \* the order in which this process iterates over a set of cells
    states,     \* SpreadsheetHistory.states: paths of the saved state files
    files,      \* the history directory: path -> [mtime, content]
    clock,      \* the number of the next state file: paths are numbered as created
    now,        \* the time of the file system, as os.path.getmtime reports it
    hist,       \* the last call on the history manager and how it ended
    saved       \* for every path created, the spreadsheet as it was when saved

vars == <<sheet, last, nops, used, raised, hashorder, states, files, clock, now, hist, saved>>

-----------------------------------------------------------------------------
(* Program constants *)

ALPHABET_LENGTH == 26
ASCII_A == 65
MAX_SIZE == 500

(* Bounds of the model *)

MaxOps == 3
RecursionLimit == 14
MaxSaves == 3

\* SpreadsheetHistory(history_dir, max_history): the limit this manager was built with
max_history == 2

-----------------------------------------------------------------------------
(* Small helpers: dicts are functions with a dynamic domain *)

Put(d, k, v) == [x \in (DOMAIN d) \cup {k} |-> IF x = k THEN v ELSE d[x]]

Pop(d, k) == [x \in (DOMAIN d) \ {k} |-> d[x]]

EmptyDict == [x \in {} |-> 0]

Range(f) == {f[x] : x \in DOMAIN f}

Last(q) == q[Len(q)]

Front(q) == SubSeq(q, 1, Len(q) - 1)

Abs(x) == IF x < 0 THEN -x ELSE x

RECURSIVE Gcd(_, _)
Gcd(a, b) == IF b = 0 THEN a ELSE Gcd(b, a % b)

-----------------------------------------------------------------------------
(* Letters *)

UPPER == <<"A","B","C","D","E","F","G","H","I","J","K","L","M",
           "N","O","P","Q","R","S","T","U","V","W","X","Y","Z">>

LOWER == <<"a","b","c","d","e","f","g","h","i","j","k","l","m",
           "n","o","p","q","r","s","t","u","v","w","x","y","z">>

Letters == Range(UPPER) \cup Range(LOWER)

\* position of a letter in the alphabet, 1..26, whatever its case
LetterPos == [ch \in Letters |->
                 CHOOSE i \in 1..ALPHABET_LENGTH : UPPER[i] = ch \/ LOWER[i] = ch]

\* ord(ch)
Ord == [ch \in Letters |->
           IF ch \in Range(UPPER) THEN ASCII_A + LetterPos[ch] - 1
           ELSE ASCII_A + 32 + LetterPos[ch] - 1]

\* chr(n) for the codes of upper-case letters
Chr(n) == UPPER[n - ASCII_A + 1]

\* str.upper() on one letter and on a label
UpperCh == [ch \in Letters |-> UPPER[LetterPos[ch]]]

UpperLabel(label) == [i \in 1..Len(label) |-> UpperCh[label[i]]]

\* str <= str on labels: Python compares strings lexicographically by code point
RECURSIVE StrLeq(_, _)
StrLeq(a, b) ==
    IF a = <<>> THEN TRUE
    ELSE IF b = <<>> THEN FALSE
    ELSE IF Ord[Head(a)] < Ord[Head(b)] THEN TRUE
    ELSE IF Ord[Head(a)] > Ord[Head(b)] THEN FALSE
    ELSE StrLeq(Tail(a), Tail(b))

-----------------------------------------------------------------------------
(* Address codec *)

Addr(label, row) == [col |-> label, row |-> row]

\* parse_cell_address: the regex ^([A-Za-z]+)(\d+)$ fails on an empty letter part
AddressOk(cell) == Len(cell.col) > 0

parse_cell_address(cell) == [row |-> cell.row, col |-> UpperLabel(cell.col)]

RECURSIVE column_letter_to_index_acc(_, _)
column_letter_to_index_acc(label, acc) ==
    IF label = <<>> THEN acc - 1
    ELSE column_letter_to_index_acc(Tail(label),
            acc * ALPHABET_LENGTH + (Ord[UpperCh[Head(label)]] - Ord["A"] + 1))

column_letter_to_index(label) == column_letter_to_index_acc(label, 0)

RECURSIVE index_to_column_letter_acc(_, _)
index_to_column_letter_acc(index, acc) ==
    IF index < 0 THEN acc
    ELSE index_to_column_letter_acc((index \div ALPHABET_LENGTH) - 1,
            <<Chr(ASCII_A + (index % ALPHABET_LENGTH))>> \o acc)

\* a conversion in plain base 26, without the index -= 1 of the loop
index_to_column_letter_base26(index) ==
    IF index < ALPHABET_LENGTH THEN <<Chr(ASCII_A + index)>>
    ELSE index_to_column_letter_acc(index \div ALPHABET_LENGTH, <<Chr(ASCII_A + (index % ALPHABET_LENGTH))>>)

index_to_column_letter(index) == index_to_column_letter_acc(index, <<>>)

convert_indices_to_cell_address(row, col) == Addr(index_to_column_letter(col), row + 1)

RECURSIVE generate_label_acc(_, _)
generate_label_acc(i, acc) ==
    IF i > 0
    THEN generate_label_acc((i - 1) \div ALPHABET_LENGTH,
            <<Chr(ASCII_A + ((i - 1) % ALPHABET_LENGTH))>> \o acc)
    ELSE acc

generate_column_labels(n) == [i \in 1..n |-> generate_label_acc(i, <<>>)]

\* the decimal digits, and str(n) and int(text) on them
DIGITS == <<"0", "1", "2", "3", "4", "5", "6", "7", "8", "9">>

DigitValue(ch) == (CHOOSE k \in 1..Len(DIGITS) : DIGITS[k] = ch) - 1

RECURSIVE str_acc(_, _)
str_acc(n, acc) ==
    IF n < Len(DIGITS) THEN <<DIGITS[n + 1]>> \o acc
    ELSE str_acc(n \div Len(DIGITS), <<DIGITS[(n % Len(DIGITS)) + 1]>> \o acc)

RECURSIVE int_acc(_, _)
int_acc(text, acc) ==
    IF text = <<>> THEN acc ELSE int_acc(Tail(text), acc * Len(DIGITS) + DigitValue(Head(text)))

\* f"{column_label}{row_label}": the address as the characters of its text
AddressText(cell) == cell.col \o str_acc(cell.row, <<>>)

\* the number of letters the text starts with
RECURSIVE LetterPrefix(_)
LetterPrefix(text) ==
    IF text # <<>> /\ Head(text) \in Letters THEN 1 + LetterPrefix(Tail(text)) ELSE 0

\* parse_cell_address on the text: re.match(r"^([A-Za-z]+)(\d+)$"), then
\* int(row_number) and column_label.upper()
ParseText(text) ==
    LET k == LetterPrefix(text)
        digits == SubSeq(text, k + 1, Len(text))
    IN IF k > 0 /\ digits # <<>> /\ \A j \in 1..Len(digits) : digits[j] \in Range(DIGITS)
       THEN [ok |-> TRUE, row |-> int_acc(digits, 0), col |-> UpperLabel(SubSeq(text, 1, k))]
       ELSE [ok |-> FALSE, row |-> 0, col |-> <<>>]


-----------------------------------------------------------------------------
(* Cell values.  Every value is a record [t, n, d, s]:                      *)
(*   t = "nan"   float('nan'), what create_sheet fills a new frame with     *)
(*   t = "none"  None, what delete_cell stores                              *)
(*   t = "int"   a Python int n                                             *)
(*   t = "float" a Python float n/d                                         *)
(*   t = "str"   a Python str, the concatenation of the pieces s           *)

NaN == [t |-> "nan", n |-> 0, d |-> 1, s |-> <<>>]

None == [t |-> "none", n |-> 0, d |-> 1, s |-> <<>>]

IntV(k) == [t |-> "int", n |-> k, d |-> 1, s |-> <<>>]

FloatV(num, den) ==
    LET sn == IF den < 0 THEN -num ELSE num
        sd == Abs(den)
        g == Gcd(Abs(sn), sd)
    IN [t |-> "float", n |-> sn \div g, d |-> sd \div g, s |-> <<>>]

StrV(pieces) == [t |-> "str", n |-> 0, d |-> 1, s |-> pieces]

EmptyStr == StrV(<<>>)

REF_ERROR == StrV(<<"#REF!">>)

DIV0_ERROR == StrV(<<"div/0 Error">>)

VALUE_ERROR == StrV(<<"Value Error">>)

GENERAL_ERROR == StrV(<<"General Error">>)

IsNumber(v) == v.t \in {"int", "float", "nan"}

\* bool(v) of Python: None, "", 0 and 0.0 are false, nan is true
Truthy(v) ==
    CASE v.t = "none" -> FALSE
      [] v.t = "str" -> v.s # <<>>
      [] v.t = "nan" -> TRUE
      [] OTHER -> v.n # 0

\* float.is_integer() followed by int(): set_cell_value_direct, lines 490-492
NormalizeNumber(v) == IF v.t = "float" /\ v.d = 1 THEN IntV(v.n) ELSE v

RECURSIVE Repeat(_, _)
Repeat(pieces, k) == IF k <= 0 THEN <<>> ELSE pieces \o Repeat(pieces, k - 1)

Ok(v) == [err |-> "", v |-> v]

Fail(kind) == [err |-> kind, v |-> None]

\* a + b, a - b, a * b, a / b on two numbers
NumOp(o, a, b) ==
    IF o = "/" /\ b.t # "nan" /\ b.n = 0 THEN Fail("zerodiv")
    ELSE IF a.t = "nan" \/ b.t = "nan" THEN Ok(NaN)
    ELSE LET r == CASE o = "+" -> FloatV(a.n * b.d + b.n * a.d, a.d * b.d)
                    [] o = "-" -> FloatV(a.n * b.d - b.n * a.d, a.d * b.d)
                    [] o = "*" -> FloatV(a.n * b.n, a.d * b.d)
                    [] o = "/" -> FloatV(a.n * b.d, a.d * b.n)
         IN IF o # "/" /\ a.t = "int" /\ b.t = "int" THEN Ok(IntV(r.n)) ELSE Ok(r)

\* the binary operators of simpleeval on numbers and strings, with the error
\* class calculate_formula (lines 588-600) tells apart by the message text
BinOp(o, a, b) ==
    IF IsNumber(a) /\ IsNumber(b) THEN NumOp(o, a, b)
    ELSE CASE o = "+" ->
                IF a.t = "str" /\ b.t = "str" THEN Ok(StrV(a.s \o b.s))
                ELSE IF a.t = "str" THEN Fail("general")  \* can only concatenate str
                ELSE Fail("value")                        \* unsupported operand type(s)
           [] o = "*" ->
                IF a.t = "str" /\ b.t = "int" THEN Ok(StrV(Repeat(a.s, b.n)))
                ELSE IF a.t = "int" /\ b.t = "str" THEN Ok(StrV(Repeat(b.s, a.n)))
                ELSE IF a.t = "str" /\ b.t = "str" THEN Fail("general")  \* safe_mult compares str > int
                ELSE Fail("value")                        \* can't multiply sequence by non-int
           [] OTHER -> Fail("value")                      \* unsupported operand type(s)

-----------------------------------------------------------------------------
(* Formulas.  A formula is its source text without the leading "=".  The   *)
(* expression is kept in postfix form; Tok* build its tokens.               *)

TokRef(a) == [k |-> "ref", a |-> a, v |-> None, o |-> ""]

TokNum(k) == [k |-> "num", a |-> Addr(<<>>, 0), v |-> IntV(k), o |-> ""]

TokOp(o) == [k |-> "op", a |-> Addr(<<>>, 0), v |-> None, o |-> o]


\* the addresses the model writes and references
A1 == Addr(<<"A">>, 1)

A2 == Addr(<<"A">>, 2)

A3 == Addr(<<"A">>, 3)

A4 == Addr(<<"A">>, 4)

B1 == Addr(<<"B">>, 1)

a1 == Addr(<<"a">>, 1)

A5 == Addr(<<"A">>, 5)

B2 == Addr(<<"B">>, 2)

Z1 == Addr(<<"Z">>, 1)

AA1 == Addr(<<"A", "A">>, 1)

\* a target that is no address: the regex of parse_cell_address does not match
Malformed == Addr(<<>>, 1)

\* ast of a formula text, as simpleeval parses it (Python precedence), in postfix
FormulaRpn(formula) ==
    CASE formula = "A1*2" -> <<TokRef(A1), TokNum(2), TokOp("*")>>
      [] formula = "A2+10" -> <<TokRef(A2), TokNum(10), TokOp("+")>>
      [] formula = "A3/2" -> <<TokRef(A3), TokNum(2), TokOp("/")>>
      [] formula = "A1+10" -> <<TokRef(A1), TokNum(10), TokOp("+")>>
      [] formula = "A2+A3" -> <<TokRef(A2), TokRef(A3), TokOp("+")>>
      [] formula = "A2*2" -> <<TokRef(A2), TokNum(2), TokOp("*")>>
      [] formula = "a1*2" -> <<TokRef(a1), TokNum(2), TokOp("*")>>
      [] formula = "10/A1" -> <<TokNum(10), TokRef(A1), TokOp("/")>>
      [] formula = "B1+1" -> <<TokRef(B1), TokNum(1), TokOp("+")>>
      [] formula = "1+2" -> <<TokNum(1), TokNum(2), TokOp("+")>>

\* value_str[1:] for the formula inputs of the model (line 460)
FormulaText(value) ==
    CASE value = "=A1*2" -> "A1*2"
      [] value = "=A2+10" -> "A2+10"
      [] value = "=A3/2" -> "A3/2"
      [] value = "=A1+10" -> "A1+10"
      [] value = "=A2+A3" -> "A2+A3"
      [] value = "=A2*2" -> "A2*2"
      [] value = "=a1*2" -> "a1*2"
      [] value = "=10/A1" -> "10/A1"
      [] value = "=B1+1" -> "B1+1"
      [] value = "=1+2" -> "1+2"

FormulaInputs == {"=A1*2", "=A2+10", "=A3/2", "=A1+10", "=A2+A3", "=A2*2",
                  "=a1*2", "=10/A1", "=B1+1", "=1+2"}

\* value_str.startswith("=")
StartsWithEq(value) == value \in FormulaInputs

\* re.findall(r'[A-Za-z]+\d+', formula): the references in textual order
FindRefs(formula) ==
    LET rpn == FormulaRpn(formula)
        refs == SelectSeq(rpn, LAMBDA tok : tok.k = "ref")
    IN [i \in 1..Len(refs) |-> refs[i].a]

\* float(value_str) for the literal inputs of the model: a number, or ValueError
ParseFloat(value) ==
    CASE value = "0" -> Ok(FloatV(0, 1))
      [] value = "10" -> Ok(FloatV(10, 1))
      [] value = "20" -> Ok(FloatV(20, 1))
      [] value = "2.5" -> Ok(FloatV(5, 2))
      [] OTHER -> Fail("ValueError")

\* the str a literal input is kept as when float() fails
TextValue(value) == IF value = "" THEN EmptyStr ELSE StrV(<<value>>)

-----------------------------------------------------------------------------
(* The Spreadsheet object *)

\* Spreadsheet.__init__: an empty frame and empty stores
NewSpreadsheet ==
    [rows |-> 0,
     index |-> <<>>,
     columns |-> <<>>,
     data |-> EmptyDict,
     formulas |-> EmptyDict,
     functions |-> <<>>,
     deps |-> EmptyDict,
     rdeps |-> EmptyDict,
     evaluator |-> "SimpleEval",
     order |-> <<>>,
     log |-> <<>>,
     err |-> "",
     errinfo |-> <<>>]

\* range(1, rows + 1): the row labels of a frame of that many rows
RowLabels(rows) == [i \in 1..rows |-> i]

\* a fresh frame of NaN; the stores are left as they are.  rows is
\* len(self._data.index), index the row labels in the order of the frame
create_sheet(s, rows, columns) ==
    [s EXCEPT !.rows = Len(RowLabels(rows)),
              !.index = RowLabels(rows),
              !.columns = generate_column_labels(columns),
              !.data = [k \in (1..rows) \X Range(generate_column_labels(columns)) |-> NaN]]

Raise(s, kind, info) == IF s.err # "" THEN s ELSE [s EXCEPT !.err = kind, !.errinfo = info]

InBounds(s, cell) ==
    LET p == parse_cell_address(cell) IN <<p.row, p.col>> \in DOMAIN s.data

HasColumn(s, cell) ==
    parse_cell_address(cell).col \in Range(s.columns) /\ Len(s.index) > 0

get_cell_value(s, cell) ==
    LET p == parse_cell_address(cell)
    IN IF <<p.row, p.col>> \in DOMAIN s.data THEN s.data[<<p.row, p.col>>] ELSE REF_ERROR

get_cell_formula(s, cell) == IF cell \in DOMAIN s.formulas THEN <<s.formulas[cell]>> ELSE <<>>

\* the function store is an insertion-ordered dict: a sequence of entries
FunctionCells(s) == {s.functions[i].cell : i \in 1..Len(s.functions)}

FunctionEntry(s, cell) == CHOOSE e \in Range(s.functions) : e.cell = cell

FunctionsPop(fs, cell) == SelectSeq(fs, LAMBDA e : e.cell # cell)

FunctionsPut(fs, cell, name, range) ==
    IF \E i \in 1..Len(fs) : fs[i].cell = cell
    THEN [i \in 1..Len(fs) |-> IF fs[i].cell = cell
                               THEN [cell |-> cell, name |-> name, range |-> range]
                               ELSE fs[i]]
    ELSE Append(fs, [cell |-> cell, name |-> name, range |-> range])

\* self._data.at[row, col] = value for a label the frame does not have: pandas
\* sets with enlargement.  A missing row is appended, NaN in the other columns;
\* a missing column is appended and holds the value in every row
Enlarge(s, row, col, value) ==
    LET index == IF row \in Range(s.index) THEN s.index ELSE Append(s.index, row)
        columns == IF col \in Range(s.columns) THEN s.columns ELSE Append(s.columns, col)
    IN [s EXCEPT !.rows = Len(index),
                 !.index = index,
                 !.columns = columns,
                 !.data = [k \in Range(index) \X Range(columns) |->
                              IF k[2] \notin Range(s.columns) THEN value
                              ELSE IF k = <<row, col>> THEN value
                              ELSE IF k \in DOMAIN s.data THEN s.data[k]
                              ELSE NaN]]

set_cell_value_direct(s, cell, value) ==
    LET p == parse_cell_address(cell)
    IN IF s.err # "" THEN s
       ELSE IF <<p.row, p.col>> \in DOMAIN s.data
            THEN [s EXCEPT !.data[<<p.row, p.col>>] = NormalizeNumber(value)]
       ELSE Enlarge(s, p.row, p.col, NormalizeNumber(value))

\* self._data.sort_index(inplace=True): the rows in the order of their labels
sort_index(s) ==
    IF \A i \in 1..(Len(s.index) - 1) : s.index[i] < s.index[i + 1] THEN s
    ELSE [s EXCEPT !.index = [i \in 1..Len(s.index) |->
                                 CHOOSE x \in Range(s.index) :
                                     Cardinality({y \in Range(s.index) : y < x}) = i - 1]]

expand_columns(s, target_col_index) ==
    LET current_max_col == Len(s.columns)
        labels == generate_column_labels(target_col_index)
        columns == [i \in 1..target_col_index |->
                       IF i <= current_max_col THEN s.columns[i] ELSE labels[i]]
    IN IF target_col_index > current_max_col
       THEN [s EXCEPT !.columns = columns,
                      !.data = [k \in Range(s.index) \X Range(columns) |->
                                   IF k \in DOMAIN s.data THEN s.data[k] ELSE EmptyStr]]
       ELSE s

\* reindex(index=range(1, target_row_number + 1), fill_value="")
expand_rows(s, target_row_number) ==
    IF target_row_number > Len(s.index)
    THEN [s EXCEPT !.rows = target_row_number,
                   !.index = RowLabels(target_row_number),
                   !.data = [k \in (1..target_row_number) \X Range(s.columns) |->
                                IF k \in DOMAIN s.data THEN s.data[k] ELSE EmptyStr]]
    ELSE s

\* the limit check with the limit itself taken as exceeding
ExceedsLimitInclusive(target_col_index, row_number) ==
    target_col_index >= MAX_SIZE \/ row_number >= MAX_SIZE

\* lines 396-397: if target_col_index > 500 or row_number > 500
ExceedsLimit(target_col_index, row_number) ==
    target_col_index > MAX_SIZE \/ row_number > MAX_SIZE

expand_sheet_to_include_cell(s, cell) ==
    LET p == parse_cell_address(cell)
        target_col_index == column_letter_to_index(p.col) + 1
    IN IF s.err # "" THEN s
       ELSE IF ~AddressOk(cell) THEN Raise(s, "ValueError:address", <<cell>>)
       ELSE IF ExceedsLimit(target_col_index, p.row)
            THEN Raise(s, "ValueError:size", <<cell>>)
       ELSE IF target_col_index > Len(s.columns) \/ p.row > Len(s.index)
            THEN sort_index(expand_rows(expand_columns(s, target_col_index), p.row))
       ELSE sort_index(s)

-----------------------------------------------------------------------------
(* Formula evaluation *)

\* resolve_cell_references: evaluator.names[ref] = get_cell_value(ref) or 0
resolve_cell_references(s, formula) ==
    LET refs == FindRefs(formula)
    IN [r \in Range(refs) |->
           IF Truthy(get_cell_value(s, r)) THEN get_cell_value(s, r) ELSE IntV(0)]

\* SimpleEval.eval on the postfix form, with a value stack
RECURSIVE EvalRpn(_, _, _, _)
EvalRpn(rpn, i, stack, names) ==
    IF i > Len(rpn) THEN Ok(Last(stack))
    ELSE LET tok == rpn[i]
         IN CASE tok.k = "ref" -> EvalRpn(rpn, i + 1, Append(stack, names[tok.a]), names)
              [] tok.k = "num" -> EvalRpn(rpn, i + 1, Append(stack, tok.v), names)
              [] tok.k = "op" ->
                   LET b == stack[Len(stack)]
                       a == stack[Len(stack) - 1]
                       r == BinOp(tok.o, a, b)
                   IN IF r.err # "" THEN r
                      ELSE EvalRpn(rpn, i + 1,
                                   Append(SubSeq(stack, 1, Len(stack) - 2), r.v), names)

Evaluate(s, formula) ==
    EvalRpn(FormulaRpn(formula), 1, <<>>, resolve_cell_references(s, formula))

\* a handler that stores the sentinel of a failed evaluation and does not
\* raise again
StoreResultQuiet(s, target_cell, r) ==
    CASE r.err = "" -> set_cell_value_direct(s, target_cell, r.v)
      [] r.err = "zerodiv" -> set_cell_value_direct(s, target_cell, DIV0_ERROR)
      [] r.err = "value" -> set_cell_value_direct(s, target_cell, VALUE_ERROR)
      [] OTHER -> set_cell_value_direct(s, target_cell, GENERAL_ERROR)

\* lines 582-604: the result, or the sentinel of the exception caught
StoreResult(s, target_cell, r) ==
    CASE r.err = "" -> set_cell_value_direct(s, target_cell, r.v)
      [] r.err = "zerodiv" -> set_cell_value_direct(s, target_cell, DIV0_ERROR)
      [] r.err = "value" ->
           Raise(set_cell_value_direct(s, target_cell, VALUE_ERROR),
                 "FormulaError", <<target_cell>>)
      [] OTHER ->
           Raise(set_cell_value_direct(s, target_cell, GENERAL_ERROR),
                 "FormulaError", <<target_cell>>)

\* line 565 needs the evaluator: a pickled object has None in its place
calculate_formula(s, target_cell, formula) ==
    IF s.err # "" THEN s
    ELSE IF s.evaluator # "SimpleEval" THEN Raise(s, "AttributeError", <<target_cell>>)
    ELSE StoreResult(s, target_cell, Evaluate(s, formula))

-----------------------------------------------------------------------------
(* Dependency graph *)

\* a value of _dependencies is a list (update_dependencies) or a set
\* (track_function_dependencies)
DepList(l) == [kind |-> "list", l |-> l, s |-> {}]

DepSet(st) == [kind |-> "set", l |-> <<>>, s |-> st]

\* iteration over a Python set: the elements in the order the hash table yields
\* them, here the order of s.order
SetToSeq(st, order) == SelectSeq(order, LAMBDA x : x \in st)

DepSeq(s, cell) ==
    IF s.deps[cell].kind = "list" THEN s.deps[cell].l
    ELSE SetToSeq(s.deps[cell].s, s.order)

DepElems(s, cell) ==
    IF cell \notin DOMAIN s.deps THEN {}
    ELSE IF s.deps[cell].kind = "list" THEN Range(s.deps[cell].l)
    ELSE s.deps[cell].s

RdepsAdd(rdeps, dep, cell) ==
    IF dep \in DOMAIN rdeps THEN [rdeps EXCEPT ![dep] = @ \cup {cell}]
    ELSE Put(rdeps, dep, {cell})

RECURSIVE RdepsAddAll(_, _, _)
RdepsAddAll(rdeps, deplist, cell) ==
    IF deplist = <<>> THEN rdeps
    ELSE RdepsAddAll(RdepsAdd(rdeps, Head(deplist), cell), Tail(deplist), cell)

update_dependencies(s, cell, formula) ==
    IF s.err # "" THEN s
    ELSE [s EXCEPT !.deps = Put(s.deps, cell, DepList(FindRefs(formula))),
                   !.rdeps = RdepsAddAll(s.rdeps, FindRefs(formula), cell)]

\* has_circular_dependency: the result and the visited set it leaves
RECURSIVE has_circular_dependency_rec(_, _, _, _)
RECURSIVE has_circular_dependency_loop(_, _, _, _, _)
has_circular_dependency_rec(s, cell, target, visited) ==
    LET v1 == visited \cup {cell}
    IN IF cell = target THEN [found |-> TRUE, visited |-> v1]
       ELSE IF cell \in DOMAIN s.deps
            THEN has_circular_dependency_loop(s, DepSeq(s, cell), 1, target, v1)
       ELSE [found |-> FALSE, visited |-> v1]

has_circular_dependency_loop(s, deplist, i, target, visited) ==
    IF i > Len(deplist) THEN [found |-> FALSE, visited |-> visited]
    ELSE IF deplist[i] = target THEN [found |-> TRUE, visited |-> visited]
    ELSE IF deplist[i] \notin visited
         THEN LET r == has_circular_dependency_rec(s, deplist[i], target, visited)
              IN IF r.found THEN r
                 ELSE has_circular_dependency_loop(s, deplist, i + 1, target, r.visited)
    ELSE has_circular_dependency_loop(s, deplist, i + 1, target, visited)

has_circular_dependency(s, cell, target) ==
    has_circular_dependency_rec(s, cell, target, {}).found

\* the cells of a range in the order track_function_dependencies visits them
RangeCells(cell_range) ==
    LET st == parse_cell_address(cell_range[1])
        en == parse_cell_address(cell_range[2])
        c0 == column_letter_to_index(st.col)
        c1 == column_letter_to_index(en.col)
        width == IF c1 >= c0 THEN c1 - c0 + 1 ELSE 0
        height == IF en.row >= st.row THEN en.row - st.row + 1 ELSE 0
    IN [k \in 1..(width * height) |->
           convert_indices_to_cell_address(st.row + ((k - 1) \div width) - 1,
                                           c0 + ((k - 1) % width))]

RECURSIVE track_function_dependencies_loop(_, _, _, _)
track_function_dependencies_loop(s, cell, cells, i) ==
    IF s.err # "" \/ i > Len(cells) THEN s
    ELSE LET dep_cell == cells[i]
             s1 == [s EXCEPT !.rdeps = RdepsAdd(s.rdeps, dep_cell, cell)]
         IN IF cell \in DOMAIN s1.deps
            THEN IF s1.deps[cell].kind = "list"
                 THEN Raise(s1, "AttributeError", <<cell>>)  \* list has no attribute add
                 ELSE track_function_dependencies_loop(
                          [s1 EXCEPT !.deps[cell] = DepSet(@.s \cup {dep_cell})],
                          cell, cells, i + 1)
            ELSE track_function_dependencies_loop(
                     [s1 EXCEPT !.deps = Put(s1.deps, cell, DepSet({dep_cell}))],
                     cell, cells, i + 1)

track_function_dependencies(s, cell, cell_range) ==
    track_function_dependencies_loop(s, cell, RangeCells(cell_range), 1)

cell_in_function_range(cell, cell_range) ==
    LET st == parse_cell_address(cell_range[1])
        en == parse_cell_address(cell_range[2])
        up == parse_cell_address(cell)
    IN /\ st.row <= up.row /\ up.row <= en.row
       /\ column_letter_to_index(st.col) <= column_letter_to_index(up.col)
       /\ column_letter_to_index(up.col) <= column_letter_to_index(en.col)

is_valid_range(start_cell, end_cell) ==
    LET st == parse_cell_address(start_cell)
        en == parse_cell_address(end_cell)
    IN st.row <= en.row /\ StrLeq(st.col, en.col)

-----------------------------------------------------------------------------
(* Aggregate functions (src/spreadsheet_functions.py).  Each one slices the *)
(* frame by position, coerces every column with pd.to_numeric, reduces each *)
(* column skipping NaN, and reduces the column results the same way.        *)

\* pd.to_numeric(errors='coerce') leaves a number only where the cell holds one
IsNumeric(v) == v.t \in {"int", "float"}

\* _data.iloc[row_slice, col_slice] after the coercion: for every column of the
\* slice that exists, the sequence of its numeric cells
NumericColumns(s, cell_range) ==
    LET st == parse_cell_address(cell_range[1])
        en == parse_cell_address(cell_range[2])
        c0 == column_letter_to_index(st.col)
        c1 == column_letter_to_index(en.col)
        lastcol == IF c1 + 1 < Len(s.columns) THEN c1 + 1 ELSE Len(s.columns)
        lastrow == IF en.row < Len(s.index) THEN en.row ELSE Len(s.index)
        rowsq == [i \in 1..(IF lastrow >= st.row THEN lastrow - st.row + 1 ELSE 0) |->
                     s.index[st.row + i - 1]]
    IN [j \in 1..(IF lastcol >= c0 + 1 THEN lastcol - c0 ELSE 0) |->
           LET label == s.columns[c0 + j]
               numeric == SelectSeq(rowsq, LAMBDA r : IsNumeric(s.data[<<r, label>>]))
           IN [i \in 1..Len(numeric) |-> s.data[<<numeric[i], label>>]]]

RatLess(a, b) == a.n * b.d < b.n * a.d

RECURSIVE SumSeq(_)
SumSeq(xs) == IF xs = <<>> THEN FloatV(0, 1)
              ELSE NumOp("+", FloatV(Head(xs).n, Head(xs).d), SumSeq(Tail(xs))).v

RECURSIVE ProdSeq(_)
ProdSeq(xs) == IF xs = <<>> THEN FloatV(1, 1)
               ELSE NumOp("*", FloatV(Head(xs).n, Head(xs).d), ProdSeq(Tail(xs))).v

RECURSIVE MaxSeq(_)
MaxSeq(xs) == IF Len(xs) = 1 THEN Head(xs)
              ELSE LET m == MaxSeq(Tail(xs)) IN IF RatLess(m, Head(xs)) THEN Head(xs) ELSE m

RECURSIVE MinSeq(_)
MinSeq(xs) == IF Len(xs) = 1 THEN Head(xs)
              ELSE LET m == MinSeq(Tail(xs)) IN IF RatLess(Head(xs), m) THEN Head(xs) ELSE m

MeanSeq(xs) == NumOp("/", SumSeq(xs), IntV(Len(xs))).v

\* the k-th smallest element of xs
Kth(xs, k) ==
    LET idx == CHOOSE i \in 1..Len(xs) :
                   /\ Cardinality({j \in 1..Len(xs) :
                          \/ RatLess(xs[j], xs[i])
                          \/ (~RatLess(xs[i], xs[j]) /\ j < i)}) = k - 1
    IN xs[idx]

MedianSeq(xs) ==
    IF Len(xs) % 2 = 1 THEN Kth(xs, (Len(xs) + 1) \div 2)
    ELSE MeanSeq(<<Kth(xs, Len(xs) \div 2), Kth(xs, Len(xs) \div 2 + 1)>>)

\* the columns that have a numeric cell, each reduced by f
ReduceColumns(cols, f(_)) ==
    LET nonempty == SelectSeq(cols, LAMBDA c : c # <<>>)
    IN [j \in 1..Len(nonempty) |-> f(nonempty[j])]

RECURSIVE Flatten(_)
Flatten(cols) == IF cols = <<>> THEN <<>> ELSE Head(cols) \o Flatten(Tail(cols))

SUPPORTED_FUNCTIONS == {"Sum", "Average", "Max", "Min", "Count", "Median", "Product"}

\* the number the function returns, before str() turns it into the cell input
FunctionResult(s, function_name, cell_range) ==
    LET cols == NumericColumns(s, cell_range)
    IN CASE function_name = "Count" -> IntV(Len(Flatten(cols)))
         [] function_name = "Sum" -> SumSeq(ReduceColumns(cols, SumSeq))
         [] function_name = "Product" -> ProdSeq(ReduceColumns(cols, ProdSeq))
         [] function_name = "Max" ->
              IF Flatten(cols) = <<>> THEN NaN ELSE MaxSeq(ReduceColumns(cols, MaxSeq))
         [] function_name = "Min" ->
              IF Flatten(cols) = <<>> THEN NaN ELSE MinSeq(ReduceColumns(cols, MinSeq))
         [] function_name = "Average" ->
              IF Flatten(cols) = <<>> THEN NaN ELSE MeanSeq(ReduceColumns(cols, MeanSeq))
         [] function_name = "Median" ->
              IF Flatten(cols) = <<>> THEN NaN ELSE MedianSeq(ReduceColumns(cols, MedianSeq))

-----------------------------------------------------------------------------
(* The recalculation engine.  set_cell_value, delete_cell, execute_function *)
(* and recalculate_dependents call each other; depth counts the frames of   *)
(* these methods on the stack and RecursionLimit stands for the             *)
(* interpreter's recursion limit (RecursionError).  Every statement of a    *)
(* method is an operator on the spreadsheet record, skipped once err is set. *)

\* the value argument of set_cell_value: a text the user typed, or str(result)
\* of a function
UserInput(text) == [isresult |-> FALSE, text |-> text, v |-> None]

ResultStr(v) == [isresult |-> TRUE, text |-> "", v |-> v]

NoFunction == [name |-> "", range |-> <<>>]

Enter(s, depth) == IF depth > RecursionLimit THEN Raise(s, "RecursionError", <<>>) ELSE s

\* value == ""  (line 437)
IsEmptyInput(value) == ~value.isresult /\ value.text = ""

\* value_str.startswith("=")  (lines 450, 458)
IsFormulaInput(value) == ~value.isresult /\ StartsWithEq(value.text)

\* lines 447-455: float(value_str), or the text when it is not a number
ParsedValue(parsed, value) == IF parsed.err = "" THEN parsed.v ELSE TextValue(value.text)

true_value(value) ==
    IF value.isresult THEN value.v ELSE ParsedValue(ParseFloat(value.text), value)

\* the error of the first reference that closes a cycle (lines 464-466)
RECURSIVE CircularCheck(_, _, _, _)
CircularCheck(s, cell, temp_dependencies, i) ==
    IF s.err # "" \/ i > Len(temp_dependencies) THEN s
    ELSE IF has_circular_dependency(s, temp_dependencies[i], cell)
         THEN Raise(s, "Circular", <<cell, temp_dependencies[i]>>)
    ELSE CircularCheck(s, cell, temp_dependencies, i + 1)

\* self._formulas[cell] = formula  (line 469)
StoreFormula(s, cell, formula) ==
    IF s.err # "" THEN s ELSE [s EXCEPT !.formulas = Put(@, cell, formula)]

\* self._functions[cell] = function_info  (lines 443-444)
StoreFunction(s, cell, function_info) ==
    IF s.err = "" /\ function_info # NoFunction
    THEN [s EXCEPT !.functions = FunctionsPut(@, cell, function_info.name, function_info.range)]
    ELSE s

\* self._formulas.pop(cell, None); self._functions.pop(cell, None)  (lines 508-509)
PopStores(s, cell) ==
    IF s.err # "" THEN s
    ELSE [s EXCEPT !.formulas = Pop(@, cell), !.functions = FunctionsPop(@, cell)]

RECURSIVE recalculate_dependents(_, _, _)
RECURSIVE recalculate_formulas_loop(_, _, _, _, _)
RECURSIVE recalculate_functions_loop(_, _, _, _, _)
RECURSIVE delete_cell(_, _, _)
RECURSIVE set_cell_value(_, _, _, _, _)
RECURSIVE function_handle(_, _, _, _, _, _)
RECURSIVE execute_function(_, _, _, _, _)

\* the cascade is about to recompute the cell: the cells recomputed by one call,
\* in the order of the calls of calculate_formula (line 304) and
\* execute_function (line 312)
Recomputed(s, cell) == IF s.err # "" THEN s ELSE [s EXCEPT !.log = Append(@, cell)]

\* lines 299-306: for dependent_cell in self._reverse_dependencies[cell]
recalculate_formulas_loop(s, cell, dependents, i, depth) ==
    IF s.err # "" THEN s
    ELSE IF Cardinality(s.rdeps[cell]) # Len(dependents)
         THEN Raise(s, "RuntimeError", <<cell>>)  \* Set changed size during iteration
    ELSE IF i > Len(dependents) THEN s
    ELSE IF dependents[i] \in DOMAIN s.formulas
         THEN recalculate_formulas_loop(
                  recalculate_dependents(
                      calculate_formula(Recomputed(s, dependents[i]), dependents[i],
                                        s.formulas[dependents[i]]),
                      dependents[i], depth + 1),
                  cell, dependents, i + 1, depth)
    ELSE recalculate_formulas_loop(s, cell, dependents, i + 1, depth)

recalculate_formulas(s, cell, depth) ==
    IF s.err = "" /\ cell \in DOMAIN s.rdeps
    THEN recalculate_formulas_loop(s, cell, SetToSeq(s.rdeps[cell], s.order), 1, depth)
    ELSE s

\* lines 310-316: for func_cell, (...) in list(self._functions.items())
recalculate_functions_loop(s, cell, items, i, depth) ==
    IF s.err # "" \/ i > Len(items) THEN s
    ELSE IF cell_in_function_range(cell, items[i].range)
         THEN recalculate_functions_loop(
                  recalculate_dependents(
                      IF items[i].name \in SUPPORTED_FUNCTIONS
                      THEN execute_function(Recomputed(s, items[i].cell), items[i].cell,
                                            items[i].name, items[i].range, depth + 1)
                      ELSE s,
                      items[i].cell, depth + 1),
                  cell, items, i + 1, depth)
    ELSE recalculate_functions_loop(s, cell, items, i + 1, depth)

recalculate_functions(s, cell, depth) ==
    IF s.err # "" THEN s ELSE recalculate_functions_loop(s, cell, s.functions, 1, depth)

recalculate_dependents(s, cell, depth) ==
    recalculate_functions(recalculate_formulas(Enter(s, depth), cell, depth), cell, depth)

delete_cell(s, cell, depth) ==
    recalculate_dependents(
        PopStores(set_cell_value_direct(Enter(s, depth), cell, None), cell),
        cell, depth + 1)

\* lines 437-438
DeleteIfEmpty(s, cell, value, depth) ==
    IF s.err = "" /\ IsEmptyInput(value) THEN delete_cell(s, cell, depth + 1) ELSE s

\* lines 440-441
DeleteIfStored(s, cell, depth) ==
    IF s.err = "" /\ (cell \in DOMAIN s.formulas \/ cell \in FunctionCells(s))
    THEN delete_cell(s, cell, depth + 1)
    ELSE s

\* lines 458-472: the formula branch
SetFormula(s, cell, formula) ==
    calculate_formula(
        update_dependencies(
            StoreFormula(CircularCheck(s, cell, FindRefs(formula), 1), cell, formula),
            cell, formula),
        cell, formula)

\* lines 457-476
StoreValue(s, cell, value) ==
    IF s.err # "" THEN s
    ELSE IF IsFormulaInput(value) THEN SetFormula(s, cell, FormulaText(value.text))
    ELSE set_cell_value_direct(s, cell, true_value(value))

set_cell_value(s, cell, value, function_info, depth) ==
    recalculate_dependents(
        StoreValue(
            StoreFunction(
                DeleteIfStored(
                    DeleteIfEmpty(
                        expand_sheet_to_include_cell(Enter(s, depth), cell),
                        cell, value, depth),
                    cell, depth),
                cell, function_info),
            cell, value),
        cell, depth + 1)

function_handle(s, cell, function_name, cell_range, result_value, depth) ==
    track_function_dependencies(
        set_cell_value(Enter(s, depth), cell, ResultStr(result_value),
                       [name |-> function_name, range |-> cell_range], depth + 1),
        cell, cell_range)

\* lines 635-668: the checks of execute_function, in the order the code makes them
FunctionCallError(cell, function_name, cell_range) ==
    IF ~AddressOk(cell) THEN "ValueError:address"
    ELSE IF Len(cell_range) # 2 THEN "ValueError:endpoints"
    ELSE IF ~AddressOk(cell_range[1]) \/ ~AddressOk(cell_range[2]) THEN "ValueError:address"
    ELSE IF ~is_valid_range(cell_range[1], cell_range[2]) THEN "ValueError:range"
    ELSE IF cell_in_function_range(cell, cell_range) THEN "ValueError:target"
    ELSE IF function_name \notin SUPPORTED_FUNCTIONS THEN "ValueError:function"
    ELSE ""

ExecuteChecked(s, cell, function_name, cell_range, error, depth) ==
    IF s.err # "" THEN s
    ELSE IF error # "" THEN Raise(s, error, <<cell>>)
    ELSE function_handle(s, cell, function_name, cell_range,
                         FunctionResult(s, function_name, cell_range), depth + 1)

execute_function(s, cell, function_name, cell_range, depth) ==
    ExecuteChecked(Enter(s, depth), cell, function_name, cell_range,
                   FunctionCallError(cell, function_name, cell_range), depth)

\* a clear_sheet that leaves the two dependency dictionaries as they are
clear_sheet_keeps_dependencies(s) ==
    [create_sheet(s, Len(s.index), Len(s.columns)) EXCEPT
        !.formulas = EmptyDict, !.functions = <<>>]

clear_sheet(s) ==
    [create_sheet(s, Len(s.index), Len(s.columns)) EXCEPT
        !.formulas = EmptyDict, !.functions = <<>>, !.deps = EmptyDict, !.rdeps = EmptyDict]

RECURSIVE enter_data_loop(_, _, _, _)
enter_data_loop(s, cells, i, value) ==
    IF s.err # "" \/ i > Len(cells) THEN s
    ELSE enter_data_loop(set_cell_value(s, cells[i], UserInput(value), NoFunction, 2),
                         cells, i + 1, value)

\* index_to_column_letter(col_index) + str(row) for the cells of the range,
\* row by row (lines 539-544)
enter_data(s, cells_range, value) ==
    IF ~AddressOk(cells_range[1]) \/ ~AddressOk(cells_range[2])
    THEN Raise(s, "ValueError:address", <<>>)
    ELSE IF ~is_valid_range(cells_range[1], cells_range[2])
         THEN Raise(s, "ValueError:range", <<>>)
    ELSE enter_data_loop(s, RangeCells(cells_range), 1, value)

-----------------------------------------------------------------------------
(* The inputs of the model *)

\* create_sheet(InitRows, InitColumns) is the sheet the caller starts from
InitRows == 2

InitColumns == 2

\* set_cell_value(cell, value)
Writes ==
    {<<A1, "10">>, <<A1, "20">>, <<A1, "Hello">>, <<A1, "">>, <<A1, "=A2*2">>, <<A1, "=a1*2">>,
     <<A2, "10">>, <<A2, "=A1*2">>, <<A2, "=a1*2">>, <<A2, "=A2+10">>, <<A2, "=B1+1">>,
     <<A2, "=A3/2">>,
     <<A3, "=A2+10">>, <<A3, "=A1+10">>, <<A3, "=A2+A3">>,
     <<A4, "=A2+A3">>,
     <<B1, "=A2*2">>, <<B1, "=10/A1">>, <<B1, "20">>, <<A1, "0">>, <<A3, "10">>,
     <<a1, "=A2*2">>}

\* delete_cell(cell)
Deletes == {A1, A2, B1, A5}

\* execute_function(cell, function_name, cell_range)
FunctionCalls ==
    {<<B1, "Sum", <<A1, A2>>>>, <<A3, "Sum", <<A1, A2>>>>, <<A1, "Sum", <<A2, A3>>>>,
     <<A2, "Max", <<A1, A1>>>>, <<A1, "Sum", <<A1, A2>>>>, <<B1, "Mean", <<A1, A2>>>>,
     <<B1, "Count", <<A1, A2>>>>, <<B1, "Min", <<A1, A2>>>>, <<B1, "Product", <<A1, A2>>>>,
     <<A3, "Average", <<A1, B2>>>>, <<A3, "Median", <<A1, B2>>>>,
     <<B1, "Sum", <<A2, A1>>>>, <<B1, "Sum", <<A1>>>>, <<Malformed, "Sum", <<A1, A2>>>>,
     <<A1, "Sum", <<Z1, AA1>>>>, <<A1, "Sum", <<AA1, B1>>>>}

\* enter_data(cells_range, value)
DataEntries ==
    {<<<<A1, A2>>, "10">>, <<<<A1, A2>>, "=B1+1">>, <<<<A2, A1>>, "10">>,
     <<<<Malformed, A2>>, "10">>, <<<<AA1, B1>>, "10">>}

\* create_sheet(rows, columns)
SheetSizes == {<<0, 1>>, <<1, 1>>}

Ascending == <<A1, A2, A3, A4, A5, B1, B2, a1>>

Descending == [i \in 1..Len(Ascending) |-> Ascending[Len(Ascending) + 1 - i]]

\* the orders in which a process may find the elements of its sets of cells
IterOrders == {Ascending, Descending}

-----------------------------------------------------------------------------
(* The state machine: one action per public call *)

\* what the caller is left with once the call has returned or raised
Settle(s) == [s EXCEPT !.err = "", !.errinfo = <<>>, !.order = <<>>, !.log = <<>>]

\* the object as the call finds it: the sets iterate in the order of this process
Running(s) == [s EXCEPT !.order = hashorder]

\* what a cell holds, as the caller sees it
CellKind(s, cell) ==
    IF cell \in DOMAIN s.formulas THEN "formula"
    ELSE IF cell \in FunctionCells(s) THEN "function"
    ELSE IF ~InBounds(s, cell) THEN "absent"
    ELSE IF get_cell_value(s, cell).t \in {"nan", "none"} THEN "empty"
    ELSE "literal"

Call(op, cell, value, name, range, before, r) ==
    [op |-> op, cell |-> cell, value |-> value, name |-> name, range |-> range,
     before |-> before, err |-> r.err, errinfo |-> r.errinfo, log |-> r.log]

NoCell == Addr(<<>>, 0)

\* a call on the history manager: its path, its error, the number of
\* spreadsheet calls made before it, and the bool it has returned if it returns one
HistCall(op, path, err) ==
    [op |-> op, path |-> path, err |-> err, at |-> nops, ret |-> FALSE]

\* the call has ended with r: the caller holds the object as the call left it
Returned(r, call) ==
    /\ sheet' = Settle(r)
    /\ last' = call
    /\ nops' = nops + 1
    /\ used' = used \cup {call.op}
    /\ raised' = (raised \/ r.err # "")
    /\ UNCHANGED <<hashorder, states, files, clock, now, hist, saved>>

Init ==
    /\ sheet = create_sheet(NewSpreadsheet, InitRows, InitColumns)
    /\ last = Call("init", NoCell, "", "", <<>>, "", NewSpreadsheet)
    /\ nops = 0
    /\ used = {}
    /\ raised = FALSE
    /\ hashorder \in IterOrders
    /\ states = <<>>
    /\ files = EmptyDict
    /\ clock = 1
    /\ now = 1
    /\ hist = HistCall("init", 0, "")
    /\ saved = <<>>

SetCellValue ==
    /\ nops < MaxOps
    /\ \E w \in Writes :
         \E r \in {set_cell_value(Running(sheet), w[1], UserInput(w[2]), NoFunction, 1)} :
            Returned(r, Call("set", w[1], w[2], "", <<>>, CellKind(sheet, w[1]), r))

\* the cell deleted is in a column the frame has, in or below its rows
DeleteCell ==
    /\ nops < MaxOps
    /\ \E cell \in Deletes :
         /\ HasColumn(sheet, cell)
         /\ \E r \in {delete_cell(Running(sheet), cell, 1)} :
               Returned(r, Call("delete", cell, "", "", <<>>, CellKind(sheet, cell), r))

ExecuteFunction ==
    /\ nops < MaxOps
    /\ \E f \in FunctionCalls :
         \E r \in {execute_function(Running(sheet), f[1], f[2], f[3], 1)} :
            Returned(r, Call("function", f[1], "", f[2], f[3], CellKind(sheet, f[1]), r))

EnterData ==
    /\ nops < MaxOps
    /\ \E e \in DataEntries :
         \E r \in {enter_data(Running(sheet), e[1], e[2])} :
            Returned(r, Call("enter", NoCell, e[2], "", e[1], "", r))

ClearSheet ==
    /\ nops < MaxOps
    /\ \E r \in {clear_sheet(Running(sheet))} :
         Returned(r, Call("clear", NoCell, "", "", <<>>, "", r))

CreateSheet ==
    /\ nops < MaxOps
    /\ \E size \in SheetSizes :
         \E r \in {create_sheet(Running(sheet), size[1], size[2])} :
            Returned(r, Call("create", NoCell, "", "", size, "", r))

Next ==
    SetCellValue \/ DeleteCell \/ ExecuteFunction \/ EnterData \/ ClearSheet \/ CreateSheet

Spec == Init /\ [][Next]_vars

-----------------------------------------------------------------------------
(* The snapshot history (src/spreadsheet_history.py).  The history directory *)
(* is the function files; a path is the number of the save that created it. *)
(* Two files written within one tick of the file system's clock have equal   *)
(* modification times, and glob lists a directory in no particular order.    *)

\* save_state: what pickle.dump writes, the object with _evaluator set to None
Pickled(s) == [s EXCEPT !.evaluator = "None"]

\* load_state: the unpickled object with a new SimpleEval
load_state(content) == [content EXCEPT !.evaluator = "SimpleEval"]

\* the files that can come first after files.sort(key=os.path.getmtime)
Oldest(fs) == {p \in DOMAIN fs : \A q \in DOMAIN fs : fs[p].mtime <= fs[q].mtime}

\* the files max(files, key=os.path.getmtime) can return
Latest(fs) == {p \in DOMAIN fs : \A q \in DOMAIN fs : fs[q].mtime <= fs[p].mtime}

\* a limit check that lets the directory fill up to max_history before it removes
LimitReachedStrict(fs) == Cardinality(DOMAIN fs) > max_history

\* while len(files) >= self.max_history
LimitReached(fs) == Cardinality(DOMAIN fs) >= max_history

\* enforce_max_history_limit: the directories the loop can leave
RECURSIVE enforce_max_history_limit(_)
enforce_max_history_limit(fs) ==
    IF LimitReached(fs)
    THEN UNION {enforce_max_history_limit(Pop(fs, p)) : p \in Oldest(fs)}
    ELSE {fs}

\* an undo that takes the first path of the list
UndoPathOldest(paths) == Head(paths)

\* self.states.pop()
UndoPath(paths) == Last(paths)

\* a can_undo that is content with one snapshot file
can_undo_any(paths, fs) == Len(paths) > 0 /\ Cardinality(DOMAIN fs) > 0

\* can_undo: len(self.states) > 0 and len(pickle_files) > 1
can_undo(paths, fs) == Len(paths) > 0 /\ Cardinality(DOMAIN fs) > 1

\* set_cell_value calls made between the calls on the history manager
HistWrites == {<<A1, "10">>, <<A2, "=A1*2">>}

Mutate ==
    /\ nops < MaxOps
    /\ \E w \in HistWrites :
         \E r \in {set_cell_value(Running(sheet), w[1], UserInput(w[2]), NoFunction, 1)} :
            Returned(r, Call("set", w[1], w[2], "", <<>>, CellKind(sheet, w[1]), r))

SaveCurrentState ==
    /\ clock <= MaxSaves
    /\ \E fs \in enforce_max_history_limit(files) :
          files' = Put(fs, clock, [mtime |-> now, content |-> Pickled(sheet)])
    /\ states' = Append(states, clock)
    /\ saved' = Append(saved, sheet)
    /\ clock' = clock + 1
    /\ hist' = HistCall("save", clock, "")
    /\ used' = used \cup {"save"}
    /\ UNCHANGED <<sheet, last, nops, raised, hashorder, now>>

Undo ==
    /\ IF states = <<>>
       THEN /\ hist' = HistCall("undo", 0, "NothingToUndo")
            /\ UNCHANGED <<sheet, states, files>>
       ELSE IF UndoPath(states) \notin DOMAIN files
       THEN /\ hist' = HistCall("undo", UndoPath(states), "FailedToLoad")
            /\ states' = SelectSeq(states, LAMBDA p : p # UndoPath(states))
            /\ UNCHANGED <<sheet, files>>
       ELSE /\ hist' = HistCall("undo", UndoPath(states), "")
            /\ sheet' = load_state(files[UndoPath(states)].content)
            /\ states' = SelectSeq(states, LAMBDA p : p # UndoPath(states))
            /\ files' = Pop(files, UndoPath(states))
    /\ used' = used \cup {"undo"}
    /\ UNCHANGED <<last, nops, raised, hashorder, clock, now, saved>>

RecoverLastSavedState ==
    /\ IF files = EmptyDict
       THEN /\ hist' = HistCall("recover", 0, "")
            /\ UNCHANGED sheet
       ELSE \E p \in Latest(files) :
               /\ hist' = HistCall("recover", p, "")
               /\ sheet' = load_state(files[p].content)
    /\ used' = used \cup {"recover"}
    /\ UNCHANGED <<last, nops, raised, hashorder, states, files, clock, now, saved>>

EnforceMaxHistoryLimit ==
    /\ \E fs \in enforce_max_history_limit(files) : files' = fs
    /\ hist' = HistCall("enforce", 0, "")
    /\ used' = used \cup {"enforce"}
    /\ UNCHANGED <<sheet, last, nops, raised, hashorder, states, clock, now, saved>>

CanUndo ==
    /\ hist' = [HistCall("can_undo", 0, "") EXCEPT !.ret = can_undo(states, files)]
    /\ used' = used \cup {"can_undo"}
    /\ UNCHANGED <<sheet, last, nops, raised, hashorder, states, files, clock, now, saved>>

\* the clock of the file system advances past the time of the file last written
Tick ==
    /\ hist.op = "save" /\ hist.path \in DOMAIN files
    /\ files[hist.path].mtime = now
    /\ now' = now + 1
    /\ UNCHANGED <<sheet, last, nops, used, raised, hashorder, states, files, clock, hist, saved>>

NextHist ==
    \/ Mutate \/ SaveCurrentState \/ Undo \/ RecoverLastSavedState
    \/ EnforceMaxHistoryLimit \/ CanUndo \/ Tick

\* the writes made here never leave two cells in one set: one order is enough
InitHist == Init /\ hashorder = Ascending

SpecHist == InitHist /\ [][NextHist]_vars

-----------------------------------------------------------------------------
(* The presentation layer (src/spreadsheet_GUI.py).  Every handler is one     *)
(* step.  The history manager is a field of the Spreadsheet object, so a      *)
(* snapshot holds the states list as it was when the object was pickled, and  *)
(* the object an undo or a recovery returns brings that list with it.         *)

\* load_sheet: the frame is rebuilt from the rows of the document under a
\* RangeIndex from 1, and the four dictionaries are replaced
load_sheet(s, doc) ==
    [s EXCEPT !.rows = Len(doc.data),
              !.index = RowLabels(Len(doc.data)),
              !.columns = doc.columns,
              !.data = [k \in (1..Len(doc.data)) \X Range(doc.columns) |->
                           doc.data[k[1]][CHOOSE j \in 1..Len(doc.columns) : doc.columns[j] = k[2]]],
              !.formulas = doc.formulas,
              !.functions = doc.functions,
              !.deps = doc.dependencies,
              !.rdeps = doc.reverse_dependencies]

\* the documents the user can open, as save_sheet writes them: a sheet of two
\* rows and two columns with 10 in A1, and a sheet of one empty cell
LoadFiles ==
    {[data |-> <<<<IntV(10), NaN>>, <<NaN, NaN>>>>,
      columns |-> generate_column_labels(2),
      formulas |-> EmptyDict, functions |-> <<>>,
      dependencies |-> EmptyDict, reverse_dependencies |-> EmptyDict],
     [data |-> <<<<NaN>>>>,
      columns |-> generate_column_labels(1),
      formulas |-> EmptyDict, functions |-> <<>>,
      dependencies |-> EmptyDict, reverse_dependencies |-> EmptyDict]}

\* the operation, the two cell entries and the value entry of the form
GuiCommands ==
    {<<"Set Value", A1, NoCell, "10">>, <<"Set Value", A2, NoCell, "=A1*2">>,
     <<"Set Value", A1, A2, "20">>, <<"Delete Value", A1, NoCell, "">>,
     <<"Sum", A1, A2, B1>>}

\* handle_operation: the spreadsheet call the form's entries lead to
handle_operation(s, c) ==
    IF c[1] = "Set Value"
    THEN IF c[3] = NoCell THEN set_cell_value(s, c[2], UserInput(c[4]), NoFunction, 1)
         ELSE enter_data(s, <<c[2], c[3]>>, c[4])
    ELSE IF c[1] = "Delete Value"
    THEN IF c[3] = NoCell THEN set_cell_value(s, c[2], UserInput(""), NoFunction, 1)
         ELSE enter_data(s, <<c[2], c[3]>>, "")
    ELSE execute_function(s, c[4], c[1], <<c[2], c[3]>>, 1)

\* the call of handle_operation as the ghost records it
GuiCall(c, r) ==
    IF c[1] \in {"Set Value", "Delete Value"}
    THEN IF c[3] = NoCell
         THEN Call("set", c[2], IF c[1] = "Set Value" THEN c[4] ELSE "", "", <<>>,
                   CellKind(sheet, c[2]), r)
         ELSE Call("enter", NoCell, IF c[1] = "Set Value" THEN c[4] ELSE "", "",
                   <<c[2], c[3]>>, "", r)
    ELSE Call("function", c[4], "", c[1], <<c[2], c[3]>>, CellKind(sheet, c[4]), r)

\* what a save of the object s writes: s with its history manager, whose states
\* list does not have the new path yet
Snapshot(s, paths) == [mtime |-> now, content |-> Pickled(s), states |-> paths]

\* execute_command: save_current_state, then handle_operation; an exception of
\* the operation is shown in a message box
GuiExecuteCommand ==
    /\ nops < MaxOps /\ clock <= MaxSaves
    /\ \E fs \in enforce_max_history_limit(files) :
          files' = Put(fs, clock, Snapshot(sheet, states))
    /\ states' = Append(states, clock)
    /\ saved' = Append(saved, sheet)
    /\ clock' = clock + 1
    /\ hist' = HistCall("save", clock, "")
    /\ \E c \in GuiCommands :
         \E r \in {handle_operation(Running(sheet), c)} :
            /\ sheet' = Settle(r)
            /\ last' = GuiCall(c, r)
            /\ nops' = nops + 1
            /\ used' = used \cup {"save", GuiCall(c, r).op}
            /\ raised' = (raised \/ r.err # "")
    /\ UNCHANGED <<hashorder, now>>

\* undo: when can_undo, the GUI holds the object undo returns, and with it the
\* history manager pickled in it
GuiUndo ==
    /\ IF ~can_undo(states, files)
       THEN /\ hist' = HistCall("undo", 0, "CannotUndo")
            /\ UNCHANGED <<sheet, states, files>>
       ELSE IF UndoPath(states) \notin DOMAIN files
       THEN /\ hist' = HistCall("undo", UndoPath(states), "FailedToLoad")
            /\ states' = Front(states)
            /\ UNCHANGED <<sheet, files>>
       ELSE /\ hist' = HistCall("undo", UndoPath(states), "")
            /\ sheet' = load_state(files[UndoPath(states)].content)
            /\ states' = files[UndoPath(states)].states
            /\ files' = Pop(files, UndoPath(states))
    /\ used' = used \cup {"undo"}
    /\ UNCHANGED <<last, nops, raised, hashorder, clock, now, saved>>

\* clear_sheet of the menu, confirmed by the user
GuiClearSheet ==
    /\ nops < MaxOps
    /\ \E r \in {clear_sheet(Running(sheet))} :
         Returned(r, Call("clear", NoCell, "", "", <<>>, "", r))

\* load_sheet of the menu, with a file chosen by the user
GuiLoadSheet ==
    /\ nops < MaxOps
    /\ \E doc \in LoadFiles :
         \E r \in {load_sheet(Running(sheet), doc)} :
            Returned(r, Call("load", NoCell, "", "", <<>>, "", r))

\* recover_sheet: the GUI holds the object recovered, if there is one
GuiRecoverSheet ==
    /\ IF files = EmptyDict
       THEN /\ hist' = HistCall("recover", 0, "")
            /\ UNCHANGED <<sheet, states>>
       ELSE \E p \in Latest(files) :
               /\ hist' = HistCall("recover", p, "")
               /\ sheet' = load_state(files[p].content)
               /\ states' = files[p].states
    /\ used' = used \cup {"recover"}
    /\ UNCHANGED <<last, nops, raised, hashorder, files, clock, now, saved>>

NextGui ==
    \/ GuiExecuteCommand \/ GuiUndo \/ GuiClearSheet \/ GuiLoadSheet
    \/ GuiRecoverSheet \/ Tick

SpecGui == InitHist /\ [][NextGui]_vars

-----------------------------------------------------------------------------
(* The address functions called on their own, on every row and every column  *)
(* a sheet can have.                                                         *)

\* generate_column_labels(n)
LabelCounts == {0, 1, ALPHABET_LENGTH, ALPHABET_LENGTH + 1, MAX_SIZE}

\* convert_indices_to_cell_address(row - 1, index), the text parsed again, and
\* the index of index_to_column_letter(index)
ConvertIndices ==
    /\ nops = 0
    /\ \E row \in 1..MAX_SIZE, index \in 0..(MAX_SIZE - 1) :
          last' = [op |-> "convert", row |-> row, index |-> index,
                   text |-> AddressText(convert_indices_to_cell_address(row - 1, index)),
                   parsed |-> ParseText(AddressText(convert_indices_to_cell_address(row - 1, index))),
                   letter |-> index_to_column_letter(index),
                   back |-> column_letter_to_index(index_to_column_letter(index))]
    /\ nops' = nops + 1
    /\ used' = used \cup {"convert"}
    /\ UNCHANGED <<sheet, raised, hashorder, states, files, clock, now, hist, saved>>

GenerateColumnLabels ==
    /\ nops = 0
    /\ \E n \in LabelCounts :
          last' = [op |-> "labels", n |-> n, labels |-> generate_column_labels(n)]
    /\ nops' = nops + 1
    /\ used' = used \cup {"labels"}
    /\ UNCHANGED <<sheet, raised, hashorder, states, files, clock, now, hist, saved>>

NextAddress == ConvertIndices \/ GenerateColumnLabels

SpecAddress == InitHist /\ [][NextAddress]_vars

-----------------------------------------------------------------------------
(* Growth of the frame.  expand_sheet_to_include_cell is called on its own, *)
(* as its tests call it, between deletes and writes outside the frame.       *)

\* row 500 and the row after it; column 500 and the column after it
A500 == Addr(<<"A">>, 500)

A501 == Addr(<<"A">>, 501)

SF1 == Addr(<<"S", "F">>, 1)

SG1 == Addr(<<"S", "G">>, 1)

\* expand_sheet_to_include_cell(cell_address)
GrowCells == {A1, A3, B1, A500, A501, SF1, SG1}

GrowDeletes == {A5, A501}

GrowWrites == {<<A3, "10">>}

\* the frame is kept to MaxCells cells: a frame of 500 rows and 500 columns is
\* not built
MaxCells == 2500

Larger(a, b) == IF a > b THEN a ELSE b

Fits(s, cell) ==
    LET p == parse_cell_address(cell)
        target_col_index == column_letter_to_index(p.col) + 1
    IN \/ target_col_index > MAX_SIZE
       \/ p.row > MAX_SIZE
       \/ Larger(Len(s.index), p.row) * Larger(Len(s.columns), target_col_index) <= MaxCells

ExpandSheet ==
    /\ nops < MaxOps
    /\ \E cell \in GrowCells :
         /\ Fits(sheet, cell)
         /\ \E r \in {expand_sheet_to_include_cell(Running(sheet), cell)} :
               Returned(r, Call("expand", cell, "", "", <<>>, CellKind(sheet, cell), r))

GrowDelete ==
    /\ nops < MaxOps
    /\ \E cell \in GrowDeletes :
         /\ HasColumn(sheet, cell)
         /\ \E r \in {delete_cell(Running(sheet), cell, 1)} :
               Returned(r, Call("delete", cell, "", "", <<>>, CellKind(sheet, cell), r))

GrowWrite ==
    /\ nops < MaxOps
    /\ \E w \in GrowWrites :
         /\ Fits(sheet, w[1])
         /\ \E r \in {set_cell_value(Running(sheet), w[1], UserInput(w[2]), NoFunction, 1)} :
               Returned(r, Call("set", w[1], w[2], "", <<>>, CellKind(sheet, w[1]), r))

NextGrow == ExpandSheet \/ GrowDelete \/ GrowWrite

SpecGrow == InitHist /\ [][NextGrow]_vars

-----------------------------------------------------------------------------
(* Cascade *)

\* the grid cell an address denotes: its row and its upper-cased column label
GridCell(cell) == Addr(parse_cell_address(cell).col, parse_cell_address(cell).row)

\* the cells a formula cell or a function cell reads
Reads(s, c) ==
    IF c \in DOMAIN s.formulas
    THEN {GridCell(r) : r \in Range(FindRefs(s.formulas[c]))}
    ELSE IF c \in FunctionCells(s)
    THEN {GridCell(r) : r \in Range(RangeCells(FunctionEntry(s, c).range))}
    ELSE {}

StoredCells(s) == DOMAIN s.formulas \cup FunctionCells(s)

\* the formula and function cells that read one of the cells, directly or transitively
RECURSIVE Readers(_, _)
Readers(s, cells) ==
    IF \E c \in StoredCells(s) \ cells : Reads(s, c) \cap {GridCell(x) : x \in cells} # {}
    THEN Readers(s, cells \cup {c \in StoredCells(s) :
                                   Reads(s, c) \cap {GridCell(x) : x \in cells} # {}})
    ELSE cells

\* what calculate_formula leaves in a cell for a result of the evaluation
ResultValue(r) ==
    CASE r.err = "" -> NormalizeNumber(r.v)
      [] r.err = "zerodiv" -> DIV0_ERROR
      [] r.err = "value" -> VALUE_ERROR
      [] OTHER -> GENERAL_ERROR

\* the formula of the cell evaluated over the current grid
FormulaValue(s, c) == ResultValue(Evaluate(s, s.formulas[c]))

\* C1: after a set_cell_value call that returned without raising, every formula
\* cell that directly or transitively references the written cell holds the value
\* of its formula evaluated over the current grid values
C1_CascadeCorrect ==
    (last.op = "set" /\ last.err = "") =>
        \A c \in (Readers(sheet, {last.cell}) \ {last.cell}) \cap DOMAIN sheet.formulas :
            get_cell_value(sheet, c) = FormulaValue(sheet, c)

-----------------------------------------------------------------------------
(* The dependency graph as stored *)

\* the addresses reached from the cells by following _dependencies
RECURSIVE Closure(_, _)
Closure(s, cells) ==
    IF UNION {DepElems(s, c) : c \in cells} \subseteq cells THEN cells
    ELSE Closure(s, cells \cup UNION {DepElems(s, c) : c \in cells})

\* the transitive closure of deps[a]
DependencyClosure(s, a) == Closure(s, DepElems(s, a))

Acyclic(s) == \A a \in DOMAIN s.deps : a \notin DependencyClosure(s, a)

\* the grid cells that the stored dependencies of a grid cell denote
CellDeps(s, g) ==
    UNION {{GridCell(b) : b \in DepElems(s, a)} :
              a \in {k \in DOMAIN s.deps : GridCell(k) = g}}

RECURSIVE CellClosure(_, _)
CellClosure(s, cells) ==
    IF UNION {CellDeps(s, g) : g \in cells} \subseteq cells THEN cells
    ELSE CellClosure(s, cells \cup UNION {CellDeps(s, g) : g \in cells})

\* C2: after formula writes, literal writes and deletes, no cell is reachable
\* from itself through the stored map _dependencies
C2_NoFormulaCycle ==
    (used \subseteq {"set", "delete"})
        => \A a \in DOMAIN sheet.deps :
              GridCell(a) \notin CellClosure(sheet, CellDeps(sheet, GridCell(a)))

\* C3: after accepted set_cell_value and execute_function calls in any order, no
\* address is in the transitive closure of its own stored dependencies
C3_NoCycle == (used \subseteq {"set", "function"} /\ ~raised) => Acyclic(sheet)

IsSetFormulaStep == last'.op = "set" /\ nops' = nops + 1 /\ StartsWithEq(last'.value)

\* the references of the formula being written that are the target or reach it
ClosingRefs(s, cell, refs) ==
    SelectSeq(refs, LAMBDA r : r = cell \/ cell \in Closure(s, {r}))

\* C4: a formula write to c is rejected with the circular-dependency error, naming
\* c and the first such reference, whenever a reference of the new formula equals
\* c or reaches c through _dependencies; the formula is not stored
C4_CycleRejected ==
    [][(IsSetFormulaStep
        /\ ClosingRefs(sheet, last'.cell, FindRefs(FormulaText(last'.value))) # <<>>)
       => /\ last'.err = "Circular"
          /\ last'.errinfo =
                <<last'.cell,
                  Head(ClosingRefs(sheet, last'.cell, FindRefs(FormulaText(last'.value))))>>
          /\ last'.cell \notin DOMAIN sheet'.formulas]_vars

\* A1 := "=A2*2" then A2 := "=A1*2": 'Circular dependency detected involving A2 and A1.'
C4_Witness ==
    /\ last.op = "set" /\ last.cell = A2 /\ last.value = "=A1*2"
    /\ last.err = "Circular" /\ last.errinfo = <<A2, A1>>
    /\ A1 \in DOMAIN sheet.formulas /\ sheet.formulas[A1] = "A2*2"

\* C5: a write rejected for a circular dependency leaves the grid dimensions, the
\* target's value, its formula or function entry, deps and rdeps as they were
C5_RejectedWriteNoMutation ==
    [][(last'.op = "set" /\ nops' = nops + 1 /\ last'.err = "Circular")
       => /\ sheet'.rows = sheet.rows /\ sheet'.columns = sheet.columns
          /\ get_cell_value(sheet', last'.cell) = get_cell_value(sheet, last'.cell)
          /\ get_cell_formula(sheet', last'.cell) = get_cell_formula(sheet, last'.cell)
          /\ {e \in Range(sheet'.functions) : e.cell = last'.cell}
                = {e \in Range(sheet.functions) : e.cell = last'.cell}
          /\ sheet'.deps = sheet.deps /\ sheet'.rdeps = sheet.rdeps]_vars

\* C6: b is in _dependencies[a] if and only if a is in _reverse_dependencies[b]
C6_ExactInverses ==
    /\ \A a \in DOMAIN sheet.deps : \A b \in DepElems(sheet, a) :
          b \in DOMAIN sheet.rdeps /\ a \in sheet.rdeps[b]
    /\ \A b \in DOMAIN sheet.rdeps : \A a \in sheet.rdeps[b] : b \in DepElems(sheet, a)

-----------------------------------------------------------------------------
(* Snapshots *)

\* equal cell values, dimensions, formulas, functions, deps and rdeps
SameContent(a, b) ==
    /\ a.rows = b.rows /\ a.index = b.index /\ a.columns = b.columns /\ a.data = b.data
    /\ a.formulas = b.formulas /\ a.functions = b.functions
    /\ a.deps = b.deps /\ a.rdeps = b.rdeps

IsUndoStep == hist'.op = "undo" /\ nops' = nops /\ now' = now

\* C7: the undo that follows a save, whatever was written in between, returns a
\* spreadsheet equal to the one saved; every snapshot file keeps what was saved
C7_UndoRoundTrip ==
    [][/\ \A p \in DOMAIN files' : SameContent(files'[p].content, saved'[p])
       /\ (hist.op = "save" /\ IsUndoStep)
            => (hist'.err = "" /\ SameContent(sheet', saved[hist.path]))]_vars

\* A1 := "10" was written after the last save and the undo has taken it back
C7_Witness ==
    /\ hist.op = "undo" /\ hist.err = "" /\ hist.path = clock - 1 /\ hist.at = nops
    /\ last.op = "set" /\ last.cell = A1 /\ last.value = "10" /\ last.err = ""
    /\ get_cell_value(sheet, A1) # IntV(10)
    /\ SameContent(sheet, saved[hist.path])

\* C8: undo fails with the nothing-to-undo error when the history is empty;
\* otherwise it removes and returns the most recently saved snapshot that has
\* not been undone
C8_UndoLifo ==
    [][(IsUndoStep /\ used \subseteq {"set", "save", "undo"})
       => IF states = <<>>
          THEN hist'.err = "NothingToUndo" /\ sheet' = sheet /\ files' = files
          ELSE /\ hist'.err = "" /\ hist'.path = Last(states)
               /\ SameContent(sheet', saved[Last(states)])
               /\ states' = Front(states)]_vars

\* C9: the directory never holds more than max_history snapshot files, and the
\* files a save evicts are older than every file it leaves
C9_BoundedOldestEvicted ==
    [][(used' \subseteq {"set", "save", "undo", "recover"})
       => /\ Cardinality(DOMAIN files') <= max_history
          /\ (hist'.op = "save" /\ clock' = clock + 1)
               => \A e \in DOMAIN files \ DOMAIN files' :
                     \A k \in DOMAIN files' : e < k]_vars

-----------------------------------------------------------------------------
(* Errors of evaluation and cascades *)

\* the cell holds 0 or holds nothing: a cell never written, a cell deleted, a
\* cell the frame was grown by
ZeroOrEmpty(s, cell) ==
    /\ InBounds(s, cell)
    /\ \/ get_cell_value(s, cell).t \in {"nan", "none"}
       \/ get_cell_value(s, cell) = EmptyStr
       \/ (IsNumeric(get_cell_value(s, cell)) /\ get_cell_value(s, cell).n = 0)

\* C11: an accepted formula that divides by a cell holding 0 or nothing leaves
\* the div-by-zero sentinel in the target, no exception escapes set_cell_value,
\* and the formula cells that read the target have been recomputed
C11_DivZeroContained ==
    (/\ last.op = "set" /\ last.value = "=10/A1" /\ last.err # "Circular"
     /\ ZeroOrEmpty(sheet, A1))
        => /\ last.err = ""
           /\ get_cell_value(sheet, last.cell) = DIV0_ERROR
           /\ \A c \in (Readers(sheet, {last.cell}) \ {last.cell}) \cap DOMAIN sheet.formulas :
                  get_cell_value(sheet, c) = FormulaValue(sheet, c)

\* C12: after a delete_cell call that returned without raising, every formula
\* cell whose formula references the deleted cell holds the reference-error
\* sentinel
C12_DeleteCascades ==
    (last.op = "delete" /\ last.err = "")
        => \A c \in DOMAIN sheet.formulas \ {last.cell} :
               GridCell(last.cell) \in Reads(sheet, c)
                   => get_cell_value(sheet, c) = REF_ERROR

\* what a function cell holds once str(result) went through set_cell_value
StoredResult(s, function_name, cell_range) ==
    NormalizeNumber(true_value(ResultStr(FunctionResult(s, function_name, cell_range))))

\* C13: after a set_cell_value or delete_cell call that returned without
\* raising, every function cell whose range contains the written cell holds
\* the aggregate of the current range values, and every formula cell that
\* references such a function cell holds its formula over the current grid
C13_FunctionFollowsRange ==
    (last.op \in {"set", "delete"} /\ last.err = "")
        => \A f \in FunctionCells(sheet) :
               cell_in_function_range(last.cell, FunctionEntry(sheet, f).range)
                   => /\ get_cell_value(sheet, f)
                           = StoredResult(sheet, FunctionEntry(sheet, f).name,
                                          FunctionEntry(sheet, f).range)
                      /\ \A c \in DOMAIN sheet.formulas \ {f} :
                             GridCell(f) \in Reads(sheet, c)
                                 => get_cell_value(sheet, c) = FormulaValue(sheet, c)

-----------------------------------------------------------------------------
(* Aggregates over ranges *)

\* the numbers held by the cells of the range, row by row; cells outside the
\* frame and cells holding text, nothing or a sentinel are left out
NumericCells(s, cell_range) ==
    LET held == SelectSeq(RangeCells(cell_range),
                          LAMBDA c : InBounds(s, c) /\ IsNumeric(get_cell_value(s, c)))
    IN [i \in 1..Len(held) |-> get_cell_value(s, held[i])]

SameNumber(a, b) == IsNumeric(a) /\ IsNumeric(b) /\ a.n * b.d = b.n * a.d

IsFunctionStep(names) ==
    /\ last.op = "function" /\ last.name \in names
    /\ FunctionCallError(last.cell, last.name, last.range) = ""

\* C14: an execute_function call of Sum, Count, Max, Min or Product over a
\* valid range and target returns without raising and leaves in the target the
\* reduction over exactly the numeric cells of the range (Count their number);
\* a range without a numeric cell still yields a value
C14_ReductionOverNumericCells ==
    IsFunctionStep({"Sum", "Count", "Max", "Min", "Product"})
        => /\ last.err = ""
           /\ last.name = "Sum" =>
                  SameNumber(get_cell_value(sheet, last.cell),
                             SumSeq(NumericCells(sheet, last.range)))
           /\ last.name = "Product" =>
                  SameNumber(get_cell_value(sheet, last.cell),
                             ProdSeq(NumericCells(sheet, last.range)))
           /\ last.name = "Count" =>
                  SameNumber(get_cell_value(sheet, last.cell),
                             IntV(Len(NumericCells(sheet, last.range))))
           /\ (last.name = "Max" /\ NumericCells(sheet, last.range) # <<>>) =>
                  SameNumber(get_cell_value(sheet, last.cell),
                             MaxSeq(NumericCells(sheet, last.range)))
           /\ (last.name = "Min" /\ NumericCells(sheet, last.range) # <<>>) =>
                  SameNumber(get_cell_value(sheet, last.cell),
                             MinSeq(NumericCells(sheet, last.range)))

\* C15: an execute_function call of Average leaves in the target the sum of the
\* numeric cells of the range divided by their number, and a call of Median
\* the median of all numeric cells of the range, whether the range spans one
\* column or several
C15_AverageMedianOverAllCells ==
    (/\ IsFunctionStep({"Average", "Median"}) /\ last.err = ""
     /\ NumericCells(sheet, last.range) # <<>>)
        => /\ last.name = "Average" =>
                  SameNumber(get_cell_value(sheet, last.cell),
                             MeanSeq(NumericCells(sheet, last.range)))
           /\ last.name = "Median" =>
                  SameNumber(get_cell_value(sheet, last.cell),
                             MedianSeq(NumericCells(sheet, last.range)))

-----------------------------------------------------------------------------
(* Ranges and the checks of execute_function *)

\* the start cell is not after the end cell, columns compared by position
OrderedByPosition(cell_range) ==
    /\ parse_cell_address(cell_range[1]).row <= parse_cell_address(cell_range[2]).row
    /\ column_letter_to_index(parse_cell_address(cell_range[1]).col)
           <= column_letter_to_index(parse_cell_address(cell_range[2]).col)

\* a call of a range operation that gets as far as the check of the range
IsRangeStep ==
    /\ last.op \in {"function", "enter"}
    /\ last.op = "function" => AddressOk(last.cell)
    /\ Len(last.range) = 2 /\ AddressOk(last.range[1]) /\ AddressOk(last.range[2])

\* C16: is_valid_range holds exactly of the ranges whose start row is at most
\* the end row and whose start column is at most the end column by position,
\* and a range operation given any other range fails with the invalid-range
\* error
C16_ValidRangeByPosition ==
    IsRangeStep
        => /\ is_valid_range(last.range[1], last.range[2]) <=> OrderedByPosition(last.range)
           /\ ~OrderedByPosition(last.range) => last.err = "ValueError:range"

\* the calls of execute_function that have to be rejected: a malformed target,
\* a missing endpoint, a range whose start is after its end, a target inside
\* the range, a function name that is not supported
MustReject(cell, function_name, cell_range) ==
    \/ ~AddressOk(cell)
    \/ Len(cell_range) # 2
    \/ /\ AddressOk(cell) /\ Len(cell_range) = 2
       /\ AddressOk(cell_range[1]) /\ AddressOk(cell_range[2])
       /\ \/ ~OrderedByPosition(cell_range)
          \/ cell_in_function_range(cell, cell_range)
          \/ function_name \notin SUPPORTED_FUNCTIONS

ValueErrors ==
    {"ValueError:address", "ValueError:endpoints", "ValueError:range", "ValueError:target",
     "ValueError:function"}

\* C17: an execute_function call with a malformed target, a missing endpoint,
\* an inverted range, a target inside the range or an unsupported function
\* name raises ValueError and leaves the grid, formulas, functions, deps and
\* rdeps as they were
C17_RejectedCallNoMutation ==
    [][(/\ last'.op = "function" /\ nops' = nops + 1
        /\ MustReject(last'.cell, last'.name, last'.range))
       => /\ last'.err \in ValueErrors
          /\ sheet'.index = sheet.index /\ sheet'.columns = sheet.columns
          /\ sheet'.data = sheet.data
          /\ sheet'.formulas = sheet.formulas /\ sheet'.functions = sheet.functions
          /\ sheet'.deps = sheet.deps /\ sheet'.rdeps = sheet.rdeps]_vars

-----------------------------------------------------------------------------
(* Growth *)

\* the grid: its dimensions, the addresses of its cells and what every cell
\* holds.  The order in which the frame keeps its rows is not part of it: two
\* frames with the same labels and the same cells are the same grid.
Grid(s) ==
    [rows |-> Len(s.index), labels |-> Range(s.index), columns |-> s.columns, data |-> s.data]

ColumnPosition(cell) == column_letter_to_index(parse_cell_address(cell).col) + 1

BeyondLimit(cell) == ColumnPosition(cell) > 500 \/ parse_cell_address(cell).row > 500

IsExpandStep == last'.op = "expand" /\ nops' = nops + 1

C19_DimensionsWithinLimit ==
    /\ (last.op = "create" /\ \E i \in 1..2 : last.range[i] <= 0 \/ last.range[i] > 500)
           => last.err # ""
    /\ Len(sheet.index) <= 500 /\ Len(sheet.columns) <= 500

\* a call of one of the operations that may grow the grid
IsGrowthStep ==
    /\ last'.op \in {"set", "delete", "function", "enter", "clear"}
    /\ nops' = nops + 1

\* the call addresses one cell, and the grid is not the same size after it
Expanded ==
    /\ last'.op \in {"set", "delete", "function"} /\ AddressOk(last'.cell)
    /\ \/ Len(sheet'.index) # Len(sheet.index)
       \/ Len(sheet'.columns) # Len(sheet.columns)

\* C20: across set_cell_value, delete_cell, execute_function, enter_data and
\* clear_sheet the row count and the column count never decrease; a call that
\* expands the grid leaves it with exactly the rows 1..n and the columns that
\* are needed to contain the addressed cell, and every cell that existed
\* before, other than the addressed cell and the formula and function cells,
\* keeps its address and its value
C20_GrowthMonotone ==
    [][IsGrowthStep
       => /\ Len(sheet'.index) >= Len(sheet.index)
          /\ Len(sheet'.columns) >= Len(sheet.columns)
          /\ Expanded
                => /\ Len(sheet'.index)
                        = Larger(Len(sheet.index), parse_cell_address(last'.cell).row)
                   /\ Len(sheet'.columns)
                        = Larger(Len(sheet.columns), ColumnPosition(last'.cell))
                   /\ InBounds(sheet', last'.cell)
                   /\ \A k \in DOMAIN sheet.data :
                         (/\ Addr(k[2], k[1]) # GridCell(last'.cell)
                          /\ Addr(k[2], k[1]) \notin StoredCells(sheet) \cup StoredCells(sheet'))
                            => k \in DOMAIN sheet'.data /\ sheet'.data[k] = sheet.data[k]]_vars

-----------------------------------------------------------------------------
(* The stores of a cell *)

\* the keys of the formula store and of the function store that denote the cell
FormulaKeys(s, cell) == {c \in DOMAIN s.formulas : GridCell(c) = GridCell(cell)}

FunctionKeys(s, cell) == {c \in FunctionCells(s) : GridCell(c) = GridCell(cell)}

IsLiteralText(text) == text # "" /\ ~StartsWithEq(text)

\* C21: no cell has both a formula and a function, and a set_cell_value call
\* that writes a literal and returns without raising leaves the cell holding
\* the literal, with no formula and no function
C21_KindsExclusive ==
    /\ \A c \in DOMAIN sheet.formulas : FunctionKeys(sheet, c) = {}
    /\ (last.op = "set" /\ last.err = "" /\ IsLiteralText(last.value))
          => /\ FormulaKeys(sheet, last.cell) = {}
             /\ FunctionKeys(sheet, last.cell) = {}
             /\ get_cell_value(sheet, last.cell)
                   = NormalizeNumber(true_value(UserInput(last.value)))

\* the call deleted the cell, or wrote a literal over its formula or function
IsRemoval ==
    /\ last.err = ""
    /\ \/ last.op = "delete"
       \/ /\ last.op = "set" /\ IsLiteralText(last.value)
          /\ last.before \in {"formula", "function"}

\* C22: after delete_cell(c), or after a literal was written over the formula
\* or function of c, deps[c] is empty or absent and c is in no rdeps set
C22_RemovedFromGraph ==
    IsRemoval
        => /\ last.cell \in DOMAIN sheet.deps => DepElems(sheet, last.cell) = {}
           /\ \A b \in DOMAIN sheet.rdeps : last.cell \notin sheet.rdeps[b]

\* the addresses inside the range rectangle of a function cell
RangeSet(s, f) == Range(RangeCells(FunctionEntry(s, f).range))

\* C23: for every cell of the function store, deps[cell] is exactly the set of
\* addresses inside its range rectangle, and each of those addresses has the
\* cell in its rdeps set
C23_FunctionDepsMirrorRange ==
    \A f \in FunctionCells(sheet) :
        /\ IF f \in DOMAIN sheet.deps
           THEN sheet.deps[f].kind = "set" /\ DepElems(sheet, f) = RangeSet(sheet, f)
           ELSE RangeSet(sheet, f) = {}
        /\ \A d \in RangeSet(sheet, f) : d \in DOMAIN sheet.rdeps /\ f \in sheet.rdeps[d]


-----------------------------------------------------------------------------
(* What the history manager answers and keeps *)

SnapshotFiles == DOMAIN files

IsRecoverStep == hist'.op = "recover" /\ nops' = nops /\ now' = now /\ clock' = clock

\* the snapshot file written last among those the directory still holds: the
\* paths of the model are numbered in the order of the saves
MostRecentlyWritten(fs) == CHOOSE p \in DOMAIN fs : \A q \in DOMAIN fs : q <= p

\* C25: recover_last_saved_state returns the most recently written snapshot the
\* directory still holds, or None when it holds none, and leaves the snapshot
\* files and the states list as they were, whatever undos came before
C25_RecoverNonDestructive ==
    [][IsRecoverStep
       => /\ files' = files /\ states' = states
          /\ IF SnapshotFiles = {}
             THEN hist'.path = 0 /\ sheet' = sheet
             ELSE /\ hist'.path = MostRecentlyWritten(files)
                  /\ SameContent(sheet', saved[MostRecentlyWritten(files)])]_vars


-----------------------------------------------------------------------------
(* Snapshots before commands *)

\* a command that changes the sheet has run in this step
IsCommandStep ==
    /\ nops' = nops + 1
    /\ last'.op \in {"set", "enter", "function", "clear", "load"}

\* the step has first saved the sheet as it was before the command
SavedBefore ==
    /\ hist'.op = "save" /\ hist'.at = nops
    /\ hist'.path \in DOMAIN files' /\ hist'.path \notin DOMAIN files
    /\ SameContent(files'[hist'.path].content, sheet)
    /\ states' = Append(states, hist'.path)

\* C26: set value, delete value, enter range, execute function, clear sheet
\* and load each run only after save_current_state has been called for the
\* state the command finds
C26_SnapshotBeforeCommand == [][IsCommandStep => SavedBefore]_vars


-----------------------------------------------------------------------------
(* Data entered over a range *)

IsEnterStep == last'.op = "enter" /\ nops' = nops + 1

\* the cell holds the text entered: nothing for the empty text, the formula
\* and a value for a formula, the value of the text otherwise
HoldsEntered(s, cell, text) ==
    IF text = "" THEN get_cell_value(s, cell) = None /\ FormulaKeys(s, cell) = {}
    ELSE IF StartsWithEq(text)
    THEN cell \in DOMAIN s.formulas /\ InBounds(s, cell)
    ELSE /\ FormulaKeys(s, cell) = {} /\ FunctionKeys(s, cell) = {}
         /\ get_cell_value(s, cell) = NormalizeNumber(true_value(UserInput(text)))

\* C27: enter_data with a malformed endpoint or with a start cell after the end
\* cell fails with ValueError and touches no cell; with any other range a call
\* that returns has left the text entered, or its evaluation, in every cell of
\* the rectangle
C27_EnterDataFillsOrRejects ==
    [][IsEnterStep
       => IF \/ ~AddressOk(last'.range[1]) \/ ~AddressOk(last'.range[2])
             \/ ~OrderedByPosition(last'.range)
          THEN /\ last'.err \in ValueErrors
               /\ SameContent(sheet', sheet)
          ELSE last'.err = ""
                  => \A cell \in Range(RangeCells(last'.range)) :
                        HoldsEntered(sheet', cell, last'.value)]_vars


-----------------------------------------------------------------------------
(* Clearing the sheet *)

IsClearStep == last'.op = "clear" /\ nops' = nops + 1

\* every cell of the frame is there and holds what a cell of a new sheet holds
AllEmpty(s) ==
    /\ DOMAIN s.data = Range(s.index) \X Range(s.columns)
    /\ \A k \in DOMAIN s.data : s.data[k] = NaN

\* C28: clear_sheet leaves the number of rows and the number of columns as
\* they were, leaves every cell empty, empties the formula store, the function
\* store, deps and rdeps, and adds or removes no snapshot
C28_ClearSheetFrame ==
    [][IsClearStep
       => /\ last'.err = ""
          /\ Len(sheet'.index) = Len(sheet.index)
          /\ Len(sheet'.columns) = Len(sheet.columns)
          /\ Cardinality(DOMAIN sheet'.data) = Len(sheet.index) * Len(sheet.columns)
          /\ AllEmpty(sheet')
          /\ sheet'.formulas = EmptyDict /\ FunctionCells(sheet') = {}
          /\ sheet'.deps = EmptyDict /\ sheet'.rdeps = EmptyDict
          /\ files' = files /\ states' = states]_vars

\* the sheet has been cleared while the directory holds a snapshot of a sheet
\* with a formula and its dependencies
C28_Witness ==
    /\ last.op = "clear" /\ last.err = "" /\ AllEmpty(sheet)
    /\ sheet.formulas = EmptyDict /\ sheet.deps = EmptyDict
    /\ states # <<>>
    /\ \E p \in SnapshotFiles :
          files[p].content.formulas # EmptyDict /\ files[p].content.deps # EmptyDict


-----------------------------------------------------------------------------
(* Empty and absent operands, operands of text *)

IsFormulaStep ==
    /\ last'.op = "set" /\ nops' = nops + 1 /\ StartsWithEq(last'.value)
    /\ last'.err \in {"", "FormulaError"}

\* the cell is outside the grid, or in it and holding nothing
EmptyOrAbsent(s, cell) ==
    \/ ~InBounds(s, cell)
    \/ get_cell_value(s, cell).t \in {"nan", "none"}
    \/ get_cell_value(s, cell) = EmptyStr

\* the operands of the formula, with 0 for every empty or absent cell
ZeroForEmpty(s, formula) ==
    [r \in Range(FindRefs(formula)) |->
        IF EmptyOrAbsent(s, r) THEN IntV(0) ELSE get_cell_value(s, r)]

\* what the target holds when the formula is evaluated over these operands
ValueOver(names, formula) ==
    LET r == EvalRpn(FormulaRpn(formula), 1, <<>>, names)
    IN CASE r.err = "" -> NormalizeNumber(r.v)
         [] r.err = "zerodiv" -> DIV0_ERROR
         [] r.err = "value" -> VALUE_ERROR
         [] OTHER -> GENERAL_ERROR

\* C29: a formula is evaluated with 0 in the place of every referenced cell
\* that is empty (never written, deleted, or added when the sheet grew) or
\* outside the grid
C29_EmptyOperandIsZero ==
    [][IsFormulaStep
       => get_cell_value(sheet', last'.cell)
             = ValueOver(ZeroForEmpty(sheet, FormulaText(last'.value)),
                         FormulaText(last'.value))]_vars


\* the referenced cells that hold text
TextOperands(s, formula) ==
    {r \in Range(FindRefs(formula)) :
        InBounds(s, r) /\ get_cell_value(s, r).t = "str" /\ get_cell_value(s, r) # EmptyStr}

\* C30: a formula with an arithmetic operator on an operand of text fails and
\* leaves the Value Error sentinel in the target cell; an evaluation that fails
\* for another reason leaves the General Error sentinel
C30_TextOperandValueError ==
    [][IsFormulaStep
       => /\ TextOperands(sheet, FormulaText(last'.value)) # {}
               => /\ last'.err = "FormulaError"
                  /\ get_cell_value(sheet', last'.cell) = VALUE_ERROR
          /\ (last'.err = "FormulaError" /\ TextOperands(sheet, FormulaText(last'.value)) = {})
               => get_cell_value(sheet', last'.cell) = GENERAL_ERROR]_vars


-----------------------------------------------------------------------------
(* Addresses formatted and parsed *)

\* C31: for every row in 1..500 and every column index in 0..499 the index of
\* the letter of the index is the index, the address formatted from them
\* parses to the same row and the same column, and generate_column_labels(n)
\* holds index_to_column_letter(i) at position i
C31_AddressRoundTrip ==
    /\ last.op = "convert"
          => /\ last.back = last.index
             /\ last.parsed.ok /\ last.parsed.row = last.row
             /\ last.parsed.col = last.letter
             /\ column_letter_to_index(last.parsed.col) = last.index
    /\ last.op = "labels"
          => /\ Len(last.labels) = last.n
             /\ \A i \in 0..(last.n - 1) : last.labels[i + 1] = index_to_column_letter(i)

\* the last row and the last column: SF500
C31_Witness ==
    /\ last.op = "convert" /\ last.row = MAX_SIZE /\ last.index = MAX_SIZE - 1
    /\ last.text = <<"S", "F", "5", "0", "0">>
    /\ last.parsed = [ok |-> TRUE, row |-> MAX_SIZE, col |-> <<"S", "F">>]


-----------------------------------------------------------------------------
(* Cascades *)

\* a write, a function or a delete made after calls of these three kinds that
\* were all accepted
IsCascadeStep ==
    /\ nops' = nops + 1
    /\ last'.op \in {"set", "function", "delete"}
    /\ ~raised /\ used \subseteq {"set", "function", "delete"}

\* C32: after accepted set_cell_value, execute_function and delete_cell calls
\* the cascade of a call visits finitely many cells and the call returns: it
\* does not end in the recursion limit of the interpreter
C32_CascadeTerminates ==
    [][IsCascadeStep => last'.err # "RecursionError"]_vars


IsWriteStep == last'.op = "set" /\ nops' = nops + 1

\* the key of the cell in the frame
DataKey(cell) == <<parse_cell_address(cell).row, parse_cell_address(cell).col>>

\* the cells the call has written: its target and the cells it has recomputed
Processed(call) == {DataKey(call.cell)} \cup {DataKey(c) : c \in Range(call.log)}

\* every formula or function cell of the frame that the call has not
\* processed holds what it held
OthersStale(before, after, call) ==
    \A c \in DOMAIN before.formulas \cup FunctionCells(before) :
        DataKey(c) \in DOMAIN before.data \ Processed(call)
            => get_cell_value(after, c) = get_cell_value(before, c)

\* the evaluation of the formula written fails with a Value or General error
WrittenFormulaFails ==
    /\ StartsWithEq(last'.value) /\ last'.err \in {"", "FormulaError"}
    /\ Evaluate(sheet', FormulaText(last'.value)).err \in {"value", "general"}

NoReadCycle(s) ==
    \A c \in StoredCells(s) :
        Reads(s, c) \cap {GridCell(d) : d \in Readers(s, {c})} = {}

OncePerCell(cells) ==
    \A i, j \in 1..Len(cells) : cells[i] = cells[j] => i = j

\* C34: within the cascade of one set_cell_value, delete_cell or
\* execute_function call on an acyclic dependency graph, no cell is recomputed
\* more than once
C34_RecomputedOnce ==
    [][(/\ nops' = nops + 1
        /\ last'.op \in {"set", "function", "delete"}
        /\ last'.err = ""
        /\ NoReadCycle(sheet') /\ Acyclic(sheet'))
       => OncePerCell(last'.log)]_vars

\* the cells read by what the grid cell holds now, a formula or a function
ReadsOfCell(s, g) == UNION {Reads(s, c) : c \in {k \in StoredCells(s) : GridCell(k) = g}}

\* the cells reached from the cells through the formulas and functions held now
RECURSIVE Reached(_, _)
Reached(s, cells) ==
    IF UNION {ReadsOfCell(s, g) : g \in cells} \subseteq cells THEN cells
    ELSE Reached(s, cells \cup UNION {ReadsOfCell(s, g) : g \in cells})

\* C35: a formula write to c is rejected as circular only if c is reachable from
\* one of the new references through the references of the cells that hold a
\* formula or a function at the time of the write; what a deleted or overwritten
\* formula referenced never causes a rejection
C35_NoFalseRejection ==
    [][(IsSetFormulaStep /\ last'.err = "Circular")
       => GridCell(last'.cell)
            \in Reached(sheet, {GridCell(r) : r \in Range(FindRefs(FormulaText(last'.value)))})]_vars

-----------------------------------------------------------------------------
(* Undo after recovery *)

IsGuiUndoStep == hist'.op = "undo" /\ hist' # hist /\ "undo" \in used'

\* C36: in every state reached by commands (each saving a snapshot first),
\* undo and recover_sheet, the holder adopting the object returned together
\* with the history manager pickled in it, an undo called when can_undo()
\* is true returns a snapshot and does not raise
C36_CanUndoThenUndoReturns ==
    [][(IsGuiUndoStep /\ used \cap {"clear", "load"} = {} /\ can_undo(states, files))
       => hist'.err = ""]_vars

\* C37: after any sequence of save_current_state and undo calls on one history
\* manager, more than max_history saves included, every path of the states
\* list names a snapshot file of the history directory
C37_StatesNameFiles ==
    (used \subseteq {"set", "save", "undo"})
        => \A i \in 1..Len(states) : states[i] \in SnapshotFiles

\* C38: starting from an empty history directory, after n successful commands
\* issued through execute_command, 1 <= n < max_history, n invocations of
\* the undo of the GUI restore in turn the state before command n, ..., 1:
\* the undo after the first command restores the initial sheet
C38_EveryCommandUndone ==
    [][(/\ IsGuiUndoStep
        /\ hist.op = "save" /\ clock - 1 = 1 /\ 1 < max_history
        /\ nops = 1 /\ last.err = "" /\ "undo" \notin used)
       => hist'.err = "" /\ SameContent(sheet', saved[1])]_vars

-----------------------------------------------------------------------------
(* Functions over any previous content, and the case of addresses *)

\* C39: execute_function with a well-formed target, a valid range that does
\* not contain the target and a supported function name returns without error
\* and leaves the function installed on the target, whatever the target held
\* before: nothing, a literal, a formula or another function
C39_FunctionInstalledOverAnything ==
    IsFunctionStep(SUPPORTED_FUNCTIONS)
        => /\ last.err = ""
           /\ last.cell \in FunctionCells(sheet)
           /\ FunctionEntry(sheet, last.cell).name = last.name
           /\ FunctionEntry(sheet, last.cell).range = last.range

\* the references of the formula being written that denote the target cell or
\* a cell from which the target is reached through the formulas and functions
\* held now, whatever the case of the letters
ClosingCells(s, cell, refs) ==
    {r \in Range(refs) :
        GridCell(cell) \in Reached(s, {GridCell(r)})}

\* C40: addresses are case-insensitive for value storage, formula and function
\* storage, dependency tracking, cycle detection and cascading: a formula
\* written to a well-formed target whose references, in either case, denote the
\* target or reach it is rejected as circular, and after a write that returned,
\* every formula cell that reads the written cell, in either case, holds the
\* value of its formula over the current grid
C40_CaseInsensitive ==
    [][IsSetFormulaStep
       => /\ (/\ AddressOk(last'.cell)
               /\ ClosingCells(sheet, last'.cell, FindRefs(FormulaText(last'.value))) # {})
                => last'.err = "Circular"
          /\ last'.err = ""
                => \A c \in DOMAIN sheet'.formulas :
                      GridCell(last'.cell) \in Reads(sheet', c)
                          => get_cell_value(sheet', c) = FormulaValue(sheet', c)]_vars

====
